---- MODULE Spec2Model ----
(***************************************************************************)
(* Graph normalisation / resolution engine of the metadata server:         *)
(* saving strategies (normalizer), resolving strategies (resolver), the    *)
(* resolver cache, and the annotation permission gate.                     *)
(*                                                                         *)
(* Every HTTP handler is one atomic action (requests run one after the     *)
(* other), except the owner actions of Utility, which are split at their   *)
(* awaits and interleave.  Documents are records; a collection is a        *)
(* function whose DOMAIN is the set of stored ids.                         *)
(***************************************************************************)
EXTENDS Integers, Sequences, FiniteSets, TLC

VARIABLES
  person,         \* collection 'person':        id -> [roles, institutions, contact_references]
  institution,    \* collection 'institution':   id -> [roles, addresses, notes]
  digitalentity,  \* collection 'digitalentity': id -> [persons, institutions] and,
                  \*   where physical entities are saved, phyObjs
  physicalentity, \* collection 'physicalentity': id -> [persons, institutions]
  entity,         \* collection 'entity':        id -> [annotationList, annotations, settings, relatedDigitalEntity]
  compilation,    \* collection 'compilation':   id -> [annotationList, annotations, entities]
  annotation,     \* collection 'annotation':    id -> [body, relatedEntity, relatedCompilation]
  owned,          \* owner records: account -> the ids in its data arrays
  images,         \* image store: the preview images written so far
  cache,          \* RepoCache: key -> cached resolver output
  response,       \* what the last request answered (history of that request)
  nOps,           \* number of mutating requests handled so far
  accounts,       \* accounts repository: account -> its data.entity array
  calls,          \* owner actions in flight: slot -> position and locals
  Mongo           \* the Mongo service object, its timers and the database server

metaVars == <<person, institution, digitalentity, physicalentity>>
annVars  == <<entity, compilation, annotation, images>>
ownerVars == <<accounts, calls, Mongo>>
vars == <<person, institution, digitalentity, physicalentity, entity, compilation, annotation,
          owned, images, cache, response, nOps, accounts, calls, Mongo>>

\* the entities repository as one value
DB == [person |-> person, institution |-> institution, digitalentity |-> digitalentity,
       physicalentity |-> physicalentity, entity |-> entity, compilation |-> compilation, annotation |-> annotation]

----------------------------------------------------------------------------
(* Universe                                                                *)

\* Bound on the number of saves of digital entities in one run.
MaxOps == 2

\* Bound on the number of mutating requests to the annotation engine in one run.
MaxAnnOps == 1

DEIds     == {"A", "B"}          \* ObjectIds of digital entities (the context ids)
PersonIds == {"P1", "P2", "P3"}  \* ObjectIds of persons
InstIds   == {"I1", "I2"}        \* ObjectIds of institutions
PhysIds   == {"H1", "H2"}        \* ObjectIds of physical entities
EntIds    == {"E1"}              \* ObjectIds of entities
CompIds   == {"K1", "K2"}        \* ObjectIds of compilations
AnnIds    == {"X", "Y", "Z"}     \* ObjectIds of annotations
Users     == {"u1", "u2", "u3"}  \* accounts
Ctx       == DEIds
NoId      == "none"              \* a value that is no valid ObjectId
Anonymous == "anonymous"         \* a request without a session: userData is undefined
Undefined == "undefined"         \* a missing property of a submitted document

Undef     == <<"undefined">>     \* the JavaScript value undefined, where a list is expected
EmptyMap  == [k \in {} |-> <<>>] \* the object {}
\* ObjectId.isValid(x), for the ids of this universe
IsValidId(x) == x # NoId /\ x # Undefined

Absent    == [kind |-> "absent"] \* undefined / null as a resolver result

OwnerSlots == {1, 2}             \* owner actions that can be in flight together
Idle       == [pc |-> "idle"]    \* a slot without a request
NoCalls    == [s \in OwnerSlots |-> Idle]
NoAccounts == [u \in Users |-> <<>>]

RoleInputs == {<<"AUTHOR">>, <<"EDITOR">>}

\* { ...a, ...b }: object spread, the later operand wins key by key.
Spread(a, b) ==
  [k \in (DOMAIN a) \cup (DOMAIN b) |-> IF k \in DOMAIN b THEN b[k] ELSE a[k]]

\* obj[k] = v
SetKey(m, k, v) == [x \in (DOMAIN m) \cup {k} |-> IF x = k THEN v ELSE m[x]]

\* delete obj[k]
Without(m, k) == [x \in (DOMAIN m) \ {k} |-> m[x]]

\* the elements of a list
Range(s) == {s[i] : i \in 1..Len(s)}

RECURSIVE Dedup(_)
\* Array.from(new Set(list)): first occurrences, in order
Dedup(s) ==
  IF s = <<>> THEN <<>>
  ELSE LET init == Dedup(SubSeq(s, 1, Len(s) - 1))
           last == s[Len(s)]
       IN IF last \in Range(init) THEN init ELSE Append(init, last)

----------------------------------------------------------------------------
(* Cache (RepoCache): a key/value map holding serialised copies             *)

CacheFlush == EmptyMap

\* a cached value without an _id (the object {})
Corrupt == [kind |-> "corrupt"]

AnyEntry(c, id) == id \in DOMAIN c

\* const temp = await RepoCache.get(parsedId); if (temp) { if (temp._id) ...
CacheHit(c, id) == id \in DOMAIN c /\ "_id" \in DOMAIN c[id]

\* RepoCache.del(parsedId) of an entry that is no hit
Evicted(c, id) == [k \in DOMAIN c \ {id} |-> c[k]]
CacheSet(c, k, v) == SetKey(c, k, v)
\* c extended by the fresh results in add; what c already holds stays
CacheFill(c, add) == Spread(add, c)

----------------------------------------------------------------------------
(* Resolver.  A resolve of a store that does not change under it gives,    *)
(* for every id it visits, the cached value when the cache holds one and    *)
(* the hydrated stored record otherwise, and stores every fresh result:     *)
(* each ...View below is that value, each ...Cache the cache afterwards.    *)

\* obj.roles = {}; obj.roles[entityId] = relatedRole (undefined when there is none)
Only(m, k) == [x \in {k} |-> IF k \in DOMAIN m THEN m[k] ELSE Undef]

\* The collapse of one per-context map of a shared record to the owning id.
CollapseMap(m, k) == Only(m, k)

removeUnrelatedEntities(obj, entityId) ==
  IF obj.kind = "person"
  THEN [obj EXCEPT !.roles = CollapseMap(@, entityId),
                   !.institutions = CollapseMap(@, entityId),
                   !.contact_references = CollapseMap(@, entityId)]
  ELSE IF obj.kind = "institution"
  THEN [obj EXCEPT !.roles = CollapseMap(@, entityId),
                   !.addresses = CollapseMap(@, entityId),
                   !.notes = CollapseMap(@, entityId)]
  ELSE [obj EXCEPT !.roles = CollapseMap(@, entityId)]

\* resolveInstitution without entityId, as resolve calls it: the addresses of a
\* stored institution are already resolved documents (the loop skips them).
resolveInstitution(db, i) ==
  [kind |-> "institution", _id |-> i, roles |-> db.institution[i].roles,
   addresses |-> db.institution[i].addresses, notes |-> db.institution[i].notes]

\* resolve(i, 'institution')
InstView(c, db, i) ==
  IF i \in DOMAIN c THEN c[i]
  ELSE IF i \in DOMAIN db.institution THEN resolveInstitution(db, i)
  ELSE Absent

InstCache(c, db, i) ==
  IF i \in DOMAIN c \/ i \notin DOMAIN db.institution THEN c
  ELSE CacheSet(c, i, resolveInstitution(db, i))

\* resolvePerson without entityId: every institution of every context is resolved
\* and the ones that do not resolve are filtered out
resolvePerson(c, db, p) ==
  [kind |-> "person", _id |-> p, roles |-> db.person[p].roles,
   contact_references |-> db.person[p].contact_references,
   institutions |->
     [k \in DOMAIN db.person[p].institutions |->
        LET ids == db.person[p].institutions[k]
            Found(i) == InstView(c, db, i).kind = "institution"
            kept == SelectSeq(ids, Found)
        IN [j \in 1..Len(kept) |-> InstView(c, db, kept[j])]]]

\* the institution ids a stored person refers to
PersonInstIds(db, p) ==
  UNION {Range(db.person[p].institutions[k]) : k \in DOMAIN db.person[p].institutions}

\* resolve(p, 'person')
PersonView(c, db, p) ==
  IF p \in DOMAIN c THEN c[p]
  ELSE IF p \in DOMAIN db.person THEN resolvePerson(c, db, p)
  ELSE Absent

PersonCache(c, db, p) ==
  IF p \in DOMAIN c \/ p \notin DOMAIN db.person THEN c
  ELSE LET fresh == PersonInstIds(db, p) \cap DOMAIN db.institution
           c1 == CacheFill(c, [k \in fresh |-> resolveInstitution(db, k)])
       IN CacheSet(c1, p, resolvePerson(c, db, p))

\* resolveMetaDataEntity, persons loop: a person that resolves is collapsed to
\* the owning id and gets a role list; one that does not is left as it is stored
EmbeddedPerson(c, db, p, id) ==
  LET resolved == PersonView(c, db, p)
  IN IF resolved.kind = "absent" THEN [kind |-> "ref", _id |-> p]
     ELSE LET r == removeUnrelatedEntities(resolved, id)
          IN IF id \in DOMAIN r.roles /\ r.roles[id] = Undef
             THEN [r EXCEPT !.roles = SetKey(@, id, <<>>)]
             ELSE r

RECURSIVE PersonsCache(_, _, _)
PersonsCache(c, db, ps) ==
  IF ps = <<>> THEN c
  ELSE PersonsCache(PersonCache(c, db, Head(ps)), db, Tail(ps))

\* resolve(h, 'physicalentity'): no resolving strategy applies to the record,
\* the raw document is returned and cached
PhysDoc(db, h) ==
  [kind |-> "physicalentity", _id |-> h,
   persons |-> db.physicalentity[h].persons,
   institutions |-> db.physicalentity[h].institutions]

PhysRaw(c, db, h) ==
  IF h \in DOMAIN c THEN c[h]
  ELSE IF h \in DOMAIN db.physicalentity THEN PhysDoc(db, h)
  ELSE Absent

\* resolveDigitalEntity, phyObjs loop: a physical entity that resolves is
\* replaced by resolveMetaDataEntity(resolved), one that does not is left as
\* the reference it is
PhysView(c, db, h) ==
  LET raw == PhysRaw(c, db, h)
  IN IF raw.kind = "absent" THEN [kind |-> "ref", _id |-> h]
     ELSE [raw EXCEPT !.persons = [j \in 1..Len(raw.persons) |->
                                    EmbeddedPerson(c, db, raw.persons[j], h)]]

\* resolveMetaDataEntity throws on a physical entity with stored institution
\* references, as it does on a digital entity
PhysThrows(c, db, hs) ==
  \E j \in 1..Len(hs) :
    /\ PhysRaw(c, db, hs[j]).kind # "absent"
    /\ PhysRaw(c, db, hs[j]).institutions # <<>>

\* the phyObjs of a resolved digital entity; a record saved without physical
\* entities has no such property
PhyObjsView(c, db, doc) ==
  IF "phyObjs" \in DOMAIN doc
  THEN [phyObjs |-> [j \in 1..Len(doc.phyObjs) |-> PhysView(c, db, doc.phyObjs[j])]]
  ELSE <<>>

\* resolveDigitalEntity(doc) throws: in resolveMetaDataEntity of the record
\* itself or of one of its physical entities
MetaDataThrows(c, db, id) ==
  \/ db.digitalentity[id].institutions # <<>>
  \/ /\ "phyObjs" \in DOMAIN db.digitalentity[id]
     /\ PhysThrows(c, db, db.digitalentity[id].phyObjs)

\* resolveDigitalEntity(doc), for a record without tags.
\* The institutions loop hands the stored reference itself to
\* resolveInstitution, whose removeUnrelatedEntities reads roles[entityId] of a
\* bare id and throws; resolve catches that and answers undefined.
resolveDigitalEntity(c, db, id) ==
  LET doc == db.digitalentity[id]
  IN IF MetaDataThrows(c, db, id) THEN Absent
     ELSE [kind |-> "digitalentity", _id |-> id,
           persons |-> [j \in 1..Len(doc.persons) |->
                          EmbeddedPerson(c, db, doc.persons[j], id)],
           institutions |-> <<>>] @@ PhyObjsView(c, db, doc)

\* the cache after the phyObjs loop: each physical entity that resolves is
\* cached as stored, and so are its persons
RECURSIVE PhysCache(_, _, _)
PhysCache(c, db, hs) ==
  IF hs = <<>> THEN c
  ELSE LET h == Head(hs)
           raw == PhysRaw(c, db, h)
           c1 == IF raw.kind = "absent" THEN c
                 ELSE PersonsCache(IF h \in DOMAIN c THEN c ELSE CacheSet(c, h, raw),
                                   db, raw.persons)
       IN PhysCache(c1, db, Tail(hs))

DEView(c, db, id) ==
  IF id \in DOMAIN c THEN c[id]
  ELSE IF id \in DOMAIN db.digitalentity THEN resolveDigitalEntity(c, db, id)
  ELSE Absent

DECache(c, db, id) ==
  IF id \in DOMAIN c \/ id \notin DOMAIN db.digitalentity THEN c
  ELSE LET doc == db.digitalentity[id]
           c0 == PersonsCache(c, db, doc.persons)
           c1 == IF "phyObjs" \in DOMAIN doc /\ doc.institutions = <<>>
                 THEN PhysCache(c0, db, doc.phyObjs) ELSE c0
           v == resolveDigitalEntity(c, db, id)
       IN IF v.kind = "absent" THEN c1 ELSE CacheSet(c1, id, v)

\* a stored annotation as resolve returns it: the raw record (no resolving
\* strategy applies), an object read from the store
AnnDoc(db, a) ==
  [kind |-> "annotation", _id |-> a,
   body |-> [ref |-> "db", content |-> db.annotation[a].body],
   relatedEntity |-> db.annotation[a].relatedEntity,
   relatedCompilation |-> db.annotation[a].relatedCompilation,
   generated |-> db.annotation[a].generated,
   lastModificationDate |-> db.annotation[a].lastModificationDate,
   lastModifiedBy |-> db.annotation[a].lastModifiedBy]

\* resolve(a, 'annotation')
AnnView(c, db, a) ==
  IF a \in DOMAIN c THEN c[a]
  ELSE IF a \in DOMAIN db.annotation THEN AnnDoc(db, a)
  ELSE Absent

\* the annotations of a record that resolve, each resolved
ResolvedAnnotations(c, db, as) ==
  [a \in {x \in as : AnnView(c, db, x).kind # "absent"} |-> AnnView(c, db, a)]

AnnsCache(c, db, as) ==
  CacheFill(c, [a \in as \cap DOMAIN db.annotation |-> AnnDoc(db, a)])

\* resolveEntity(doc): annotations that do not resolve are deleted, the
\* related digital entity is replaced when it resolves
resolveEntity(c, db, e) ==
  LET doc == db.entity[e]
      rde == DEView(c, db, doc.relatedDigitalEntity)
  IN [kind |-> "entity", _id |-> e,
      annotationList |-> doc.annotationList,
      settings |-> doc.settings,
      annotations |-> ResolvedAnnotations(c, db, doc.annotations),
      relatedDigitalEntity |->
        IF rde.kind = "absent" THEN [kind |-> "ref", _id |-> doc.relatedDigitalEntity]
        ELSE rde]

\* resolve(e, 'entity')
EntView(c, db, e) ==
  IF e \in DOMAIN c THEN c[e]
  ELSE IF e \in DOMAIN db.entity THEN resolveEntity(c, db, e)
  ELSE Absent

EntCache(c, db, e) ==
  IF e \in DOMAIN c \/ e \notin DOMAIN db.entity THEN c
  ELSE LET c1 == AnnsCache(c, db, db.entity[e].annotations)
           c2 == DECache(c1, db, db.entity[e].relatedDigitalEntity)
       IN CacheSet(c2, e, resolveEntity(c, db, e))

RECURSIVE EntsCache(_, _, _)
EntsCache(c, db, es) ==
  IF es = {} THEN c
  ELSE LET e == CHOOSE x \in es : TRUE
       IN EntsCache(EntCache(c, db, e), db, es \ {e})

\* resolveCompilation(doc): entities and annotations that do not resolve are
\* deleted, the others replaced by what they resolve to
resolveCompilation(c, db, k) ==
  LET doc == db.compilation[k]
  IN [kind |-> "compilation", _id |-> k,
      annotationList |-> doc.annotationList,
      entities |-> [e \in {x \in doc.entities : EntView(c, db, x).kind # "absent"} |->
                      EntView(c, db, e)],
      annotations |-> ResolvedAnnotations(c, db, doc.annotations)]

\* resolve(k, 'compilation')
CompView(c, db, k) ==
  IF k \in DOMAIN c THEN c[k]
  ELSE IF k \in DOMAIN db.compilation THEN resolveCompilation(c, db, k)
  ELSE Absent

CompCache(c, db, k) ==
  IF k \in DOMAIN c \/ k \notin DOMAIN db.compilation THEN c
  ELSE LET c1 == EntsCache(c, db, db.compilation[k].entities)
           c2 == AnnsCache(c1, db, db.compilation[k].annotations)
       IN CacheSet(c2, k, resolveCompilation(c, db, k))

\* the store lookup and resolving strategy of resolve, by collection
Lookup(c, db, id, coll) ==
  CASE coll = "person"        -> [val |-> PersonView(c, db, id), cache |-> PersonCache(c, db, id)]
    [] coll = "institution"   -> [val |-> InstView(c, db, id), cache |-> InstCache(c, db, id)]
    [] coll = "digitalentity" -> [val |-> DEView(c, db, id), cache |-> DECache(c, db, id)]
    [] coll = "entity"        -> [val |-> EntView(c, db, id), cache |-> EntCache(c, db, id)]
    [] coll = "compilation"   -> [val |-> CompView(c, db, id), cache |-> CompCache(c, db, id)]
    [] coll = "annotation"    -> [val |-> AnnView(c, db, id), cache |-> AnnsCache(c, db, {id})]

\* the optional parameter depth of resolve: not given, or a number
NoDepth == [given |-> FALSE, n |-> 0]
Depth(n) == [given |-> TRUE, n |-> n]

\* the truthiness of depth: undefined and 0 are falsy
Truthy(depth) == depth.given /\ depth.n # 0

\* if (depth && depth === 0) return resolve_result
StopsAtRecord(depth) == Truthy(depth) /\ depth.n = 0

\* a reference as the store holds it
Ref(id) == [kind |-> "ref", _id |-> id]

\* findOne(query(_id)) on coll: the record as stored, its references bare
StoredRecord(db, id, coll) ==
  IF id \notin DOMAIN db[coll] THEN Absent
  ELSE CASE coll = "compilation" ->
              [kind |-> "compilation", _id |-> id,
               annotationList |-> db.compilation[id].annotationList,
               entities |-> [e \in db.compilation[id].entities |-> Ref(e)],
               annotations |-> [a \in db.compilation[id].annotations |-> Ref(a)]]
         [] coll = "entity" ->
              [kind |-> "entity", _id |-> id,
               annotationList |-> db.entity[id].annotationList,
               settings |-> db.entity[id].settings,
               annotations |-> [a \in db.entity[id].annotations |-> Ref(a)],
               relatedDigitalEntity |-> Ref(db.entity[id].relatedDigitalEntity)]
         [] coll = "annotation" -> AnnDoc(db, id)
         [] coll = "physicalentity" -> PhysDoc(db, id)
         [] OTHER -> [kind |-> coll, _id |-> id] @@ db[coll][id]

\* resolve(obj, coll, depth): undefined for an invalid id, the cached value when
\* the cache holds one, else the store and, unless the depth test stops at
\* the record, the resolving strategy; the result is cached.
\* the part of resolve after the cache was read and did not answer
resolveStore(c, db, id, coll, depth) ==
  IF StopsAtRecord(depth)
  THEN [val |-> StoredRecord(db, id, coll),
        cache |-> IF id \in DOMAIN db[coll]
                  THEN CacheSet(c, id, StoredRecord(db, id, coll)) ELSE c]
  ELSE Lookup(c, db, id, coll)

resolveDepth(c, db, id, coll, depth) ==
  IF id = NoId \/ id = Undefined THEN [val |-> Absent, cache |-> c]
  ELSE IF CacheHit(c, id) THEN [val |-> c[id], cache |-> c]
  ELSE resolveStore(Evicted(c, id), db, id, coll, depth)

\* resolve(obj, coll)
resolve(c, db, id, coll) == resolveDepth(c, db, id, coll, NoDepth)

\* what the promise resolve returns settles to
Returned(val, c) == [outcome |-> "returned", val |-> val, cache |-> c]
Raised(c) == [outcome |-> "raised", val |-> Absent, cache |-> c]

\* the outcomes of findOne: it answers (a record or null) or its promise rejects
FindOneOutcomes == {"answers", "rejects"}

\* a resolving strategy throws on the record findOne gave
StrategyThrows(c, db, id, coll) ==
  /\ coll = "digitalentity"
  /\ id \in DOMAIN db.digitalentity
  /\ MetaDataThrows(c, db, id)

\* findOne(...).then(strategy).then(RepoCache.set), before the catch
ChainSettled(throws, r) ==
  IF throws THEN Raised(r.cache) ELSE Returned(r.val, r.cache)

LookupChain(c, db, id, coll, depth, findOne) ==
  IF findOne = "rejects" THEN Raised(Evicted(c, id))
  ELSE ChainSettled(StrategyThrows(c, db, id, coll) /\ ~StopsAtRecord(depth),
                    resolveDepth(c, db, id, coll, depth))

NoCatch(settled) == settled

\* .catch(err => { Logger...; return undefined; })
CatchAll(settled) ==
  IF settled.outcome = "raised" THEN Returned(Absent, settled.cache) ELSE settled

\* resolve(obj, coll, depth) as the caller sees it settle: the tests on obj
\* and the cache come before the chain, the catch is the chain's last link
resolveSettled(c, db, obj, coll, depth, findOne) ==
  IF obj = Undefined THEN Returned(Absent, c)
  ELSE IF ~IsValidId(obj) THEN Returned(Absent, c)
  ELSE IF CacheHit(c, obj) THEN Returned(c[obj], c)
  ELSE CatchAll(LookupChain(c, db, obj, coll, depth, findOne))

\* the caller of resolve has its answer r (kept as history)
Resolved(obj, coll, findOne, r) ==
  /\ cache' = r.cache
  /\ response' = [op |-> "resolve", obj |-> obj, coll |-> coll, findOne |-> findOne,
                  threw |-> /\ IsValidId(obj) /\ obj \notin DOMAIN cache
                            /\ findOne = "answers"
                            /\ StrategyThrows(cache, DB, obj, coll),
                  failed |-> /\ IsValidId(obj)
                             /\ StrategyThrows(Evicted(cache, obj), DB, obj, coll),
                  stored |-> IsValidId(obj) /\ obj \in DOMAIN DB[coll],
                  cached |-> obj \in DOMAIN cache,
                  corrupt |-> obj \in DOMAIN cache /\ cache[obj] = Corrupt,
                  held |-> IF obj \in DOMAIN cache THEN cache[obj] ELSE Absent,
                  outcome |-> r.outcome,
                  val |-> r.val]
  /\ UNCHANGED <<metaVars, annVars, owned, nOps, ownerVars>>

\* The cache comes to hold under id a value without an _id.  Only ids of
\* digital entities: no record of this store nests one, so the entry is read
\* by a resolve of that id itself.
CorruptCacheEntry(id) ==
  /\ cache' = CacheSet(cache, id, Corrupt)
  /\ cache' # cache
  /\ response' = [op |-> "corrupted", id |-> id]
  /\ UNCHANGED <<metaVars, annVars, owned, nOps, ownerVars>>

\* one call of resolve by a handler
Resolve(obj, coll, depth, findOne) ==
  Resolved(obj, coll, findOne, resolveSettled(cache, DB, obj, coll, depth, findOne))

\* History kept with the response of a save: the id the request answered just
\* before it asked for, when that request was a GET.
PrecedingGet == IF response.op = "get" THEN response.id ELSE NoId

\* GET /:collection/:identifier for a collection without password protection
GetEntityFromCollection(id, coll) ==
  LET r == resolve(cache, DB, id, coll)
  IN /\ cache' = r.cache
     /\ response' = [op |-> "get", id |-> id, coll |-> coll, val |-> r.val,
                     status |-> IF r.val.kind = "absent" THEN 404 ELSE 200]
     /\ UNCHANGED <<metaVars, annVars, owned, nOps, ownerVars>>

----------------------------------------------------------------------------
(* The Mongo service object and its reconnect loop.  The methods are arrow  *)
(* functions, whose this is the this of the module and not the object:      *)
(* establishConnection assigns this.Connection, while the loop tests        *)
(* Mongo.Connection, which nothing assigns but the loop's own               *)
(* Mongo.Connection = undefined.                                            *)

\* MaxRetries: 10
MaxRetries == 10

\* the number of callbacks of the interval timers that are followed
MaxTicks == 13

\* the number of times the connection closes
MaxCloses == 2

\* the service after initClient, establishConnection, initObjectsRepository,
\* initCollections and initReconnect, the server being up.  Connection is
\* Mongo.Connection, thisConnection the state of the promise this.Connection;
\* timeouts and intervals count the timers that are set (none is ever
\* cleared); established counts the calls of establishConnection since the
\* last close, ticks the callbacks run, closes the close events, and
\* stayedDown tells that the server was down ever since the last close
Connected ==
  [Connection |-> Undefined, thisConnection |-> "connected", Retry |-> 0,
   ReconnectInterval |-> Undefined, timeouts |-> 0, intervals |-> 0,
   up |-> TRUE, established |-> 0, ticks |-> 0, closes |-> 0,
   stayedDown |-> FALSE]

\* establishConnection: this.Connection = this.Client.connect(), which
\* settles by whether the server is up
establishConnection(m) ==
  [m EXCEPT !.thisConnection = IF m.up THEN "connected" ELSE "rejected",
            !.established = @ + 1]

\* the server goes away: the Db emits 'close', whose listener sets a timeout
ConnectionCloses ==
  /\ Mongo.thisConnection = "connected"
  /\ Mongo.up
  /\ Mongo.closes < MaxCloses
  /\ Mongo' = [Mongo EXCEPT !.up = FALSE, !.thisConnection = "closed",
                            !.timeouts = @ + 1, !.closes = @ + 1,
                            !.established = 0, !.stayedDown = TRUE]
  /\ UNCHANGED <<metaVars, annVars, owned, cache, response, nOps, accounts, calls>>

\* the server comes back
ServerReturns ==
  /\ ~Mongo.up
  /\ Mongo' = [Mongo EXCEPT !.up = TRUE, !.stayedDown = FALSE]
  /\ UNCHANGED <<metaVars, annVars, owned, cache, response, nOps, accounts, calls>>

\* the callback of setTimeout: Mongo.Connection = undefined and
\* Mongo.ReconnectInterval = setInterval(..., 1000)
ReconnectTimeout ==
  /\ Mongo.timeouts > 0
  /\ Mongo' = [Mongo EXCEPT !.timeouts = @ - 1, !.Connection = Undefined,
                            !.ReconnectInterval = "interval", !.intervals = @ + 1]
  /\ UNCHANGED <<metaVars, annVars, owned, cache, response, nOps, accounts, calls>>

\* the callback of setInterval, for one of the timers that are set
ReconnectInterval ==
  /\ Mongo.intervals > 0
  /\ Mongo.ticks < MaxTicks
  /\ Mongo' =
       IF Mongo.Connection = Undefined
       THEN IF Mongo.Retry + 1 <= MaxRetries
            THEN establishConnection([Mongo EXCEPT !.Retry = @ + 1, !.ticks = @ + 1])
            ELSE [Mongo EXCEPT !.ReconnectInterval = Undefined, !.Retry = 0,
                               !.ticks = @ + 1]
       ELSE [Mongo EXCEPT !.ReconnectInterval = Undefined, !.Retry = 0,
                          !.ticks = @ + 1]
  /\ UNCHANGED <<metaVars, annVars, owned, cache, response, nOps, accounts, calls>>

----------------------------------------------------------------------------
(* Owner records (Users service): the ids each account owns                *)

\* makeOwnerOf / insertCurrentUserData: add id to the account's owned data
makeOwnerOf(own, u, id) == [own EXCEPT ![u] = @ \cup {id}]

\* isOwner / isUserOwnerOfEntity
isOwner(own, u, id) == id \in own[u]

----------------------------------------------------------------------------
(* Normalizer, current strategy: saveMetaDataEntity / saveDigitalEntity     *)

\* A submitted nested person or institution: its _id (NoId when it has no
\* valid one), its role list for the entity being saved, and the roles
\* object it carries (def = FALSE when the document has none).
NoRoles == [def |-> FALSE, map |-> EmptyMap]
SubmittedRoleMaps ==
  {NoRoles, [def |-> TRUE, map |-> [k \in {"A"} |-> <<"EDITOR">>]]}

Submitted(ids, roleLists, maps) ==
  {[id |-> i, role |-> r, roles |-> m] :
     i \in ids \cup {NoId}, r \in roleLists, m \in maps}

Unused(ids, coll) == ids \ DOMAIN coll
NewObjectId(ids, coll) == CHOOSE x \in Unused(ids, coll) : TRUE

\* person.roles = { ...person.roles, ...resolved.roles } when the record
\* resolves, {} when the document has none; then person.roles[id] = person.role
MergedRoles(sub, resolved, id) ==
  LET own == IF sub.roles.def THEN sub.roles.map ELSE EmptyMap
      base == IF resolved.kind = "absent" THEN own ELSE Spread(own, resolved.roles)
  IN SetKey(base, id, sub.role)

\* the roles object savePerson / saveInstitution writes
SavedRoles(sub, resolved, id) == MergedRoles(sub, resolved, id)

SkipUpsert(coll, id, roles, blank) == coll

\* updateOne(query(_id), { $set: { ...doc } }, { upsert: true }): the submitted
\* fields are set, the other fields of a stored record stay
UpsertRoles(coll, id, roles, blank) ==
  IF id \in DOMAIN coll
  THEN [coll EXCEPT ![id] = [@ EXCEPT !.roles = roles]]
  ELSE SetKey(coll, id, [blank EXCEPT !.roles = roles])

BlankPerson == [roles |-> EmptyMap, institutions |-> EmptyMap,
                contact_references |-> EmptyMap]
BlankInstitution == [roles |-> EmptyMap, addresses |-> EmptyMap, notes |-> EmptyMap]

\* The record of one write to a shared record, kept in the response for the
\* properties: what was stored before, what was submitted, what was written.
WriteRec(collName, id, ctx, sub, coll, written) ==
  [coll |-> collName, id |-> id, ctx |-> ctx, role |-> sub.role,
   submitted |-> sub.id, written |-> written,
   existed |-> id \in DOMAIN coll,
   before |-> IF id \in DOMAIN coll THEN coll[id].roles ELSE EmptyMap]

\* savePerson(person) with newEntity._id = ctx, after the person was resolved
\* to r, for a person whose own institution list is empty.  st is the state
\* of the running request.
\* The then-callback reads res.upsertedId._id: when the update matched a stored
\* record the driver reports no upsertedId and the callback throws, after the
\* write, which rejects the whole save.
savePersonResolved(st, sub, ctx, u, r) ==
  LET resolved == r.val
      id == IF resolved.kind = "absent" THEN NewObjectId(PersonIds, st.db.person)
            ELSE resolved._id
      upserted == id \notin DOMAIN st.db.person
  IN [st EXCEPT
        !.cache = r.cache,
        !.db.person = UpsertRoles(@, id, SavedRoles(sub, resolved, ctx), BlankPerson),
        !.own = IF upserted THEN makeOwnerOf(@, u, id) ELSE @,
        !.ok = upserted,
        !.persons = Append(@, id),
        !.writes = @ \cup {WriteRec("person", id, ctx, sub, st.db.person,
                                        SavedRoles(sub, resolved, ctx))}]

\* const resolved = await Mongo.resolve(person, 'person'), then the above
savePerson(st, sub, ctx, u) ==
  savePersonResolved(st, sub, ctx, u, resolve(st.cache, st.db, sub.id, "person"))

\* saveInstitution(institution) with newEntity._id = ctx, after the
\* institution was resolved to r
saveInstitutionResolved(st, sub, ctx, u, r) ==
  LET resolved == r.val
      id == IF resolved.kind = "absent" THEN NewObjectId(InstIds, st.db.institution)
            ELSE resolved._id
      upserted == id \notin DOMAIN st.db.institution
  IN [st EXCEPT
        !.cache = r.cache,
        !.db.institution = UpsertRoles(@, id, SavedRoles(sub, resolved, ctx), BlankInstitution),
        !.own = IF upserted THEN makeOwnerOf(@, u, id) ELSE @,
        !.ok = upserted,
        !.institutions = Append(@, id),
        !.writes = @ \cup {WriteRec("institution", id, ctx, sub, st.db.institution,
                                        SavedRoles(sub, resolved, ctx))}]

\* const resolved = await Mongo.resolve(institution, 'institution'), then the above
saveInstitution(st, sub, ctx, u) ==
  saveInstitutionResolved(st, sub, ctx, u,
                          resolve(st.cache, st.db, sub.id, "institution"))

RECURSIVE savePersons(_, _, _, _)
\* for (i ...) newEntity.persons[i] = await savePerson(newEntity.persons[i])
savePersons(st, subs, ctx, u) ==
  IF subs = <<>> \/ ~st.ok THEN st
  ELSE savePersons(savePerson(st, Head(subs), ctx, u), Tail(subs), ctx, u)

RECURSIVE saveInstitutions(_, _, _, _)
\* for (i ...) newEntity.institutions[i] = await saveInstitution(...)
saveInstitutions(st, subs, ctx, u) ==
  IF subs = <<>> \/ ~st.ok THEN st
  ELSE saveInstitutions(saveInstitution(st, Head(subs), ctx, u), Tail(subs), ctx, u)

\* saveMetaDataEntity(entity): persons, then institutions (no tags submitted)
saveMetaDataEntity(st, ps, is, ctx, u) ==
  saveInstitutions(savePersons(st, ps, ctx, u), is, ctx, u)

\* enough unused ObjectIds for the records the request may create
CanAllocate(ps, is) ==
  /\ Cardinality(Unused(PersonIds, person)) >= Len(ps)
  /\ Cardinality(Unused(InstIds, institution)) >= Len(is)

\* the ids the shared collections held when the request arrived (history)
StoredIds == [person |-> DOMAIN person, institution |-> DOMAIN institution]

\* addEntityToCollection after saveDigitalEntity left st: a rejected save is
\* answered 500 and the digital entity not written; else the document is
\* upserted with the ids of its persons and institutions and the answer is
\* resolve(resultId, coll)
AnswerDigitalEntity(u, id, st, r) ==
  /\ person' = st.db.person
  /\ institution' = st.db.institution
  /\ IF st.ok
     THEN /\ digitalentity' = SetKey(digitalentity, id,
                                    [persons |-> st.persons,
                                     institutions |-> st.institutions])
          /\ owned' = makeOwnerOf(st.own, u, id)
          /\ cache' = r.cache
          /\ response' = [op |-> "save", strategy |-> "current", status |-> 200,
                          id |-> id, coll |-> "digitalentity",
                          val |-> r.val, writes |-> st.writes,
                          touched |-> {id} \cup {w.id : w \in st.writes},
                          after |-> PrecedingGet, stored |-> StoredIds,
                          held |-> cache,
                          yielded |-> Range(st.persons) \cup Range(st.institutions)]
     ELSE /\ digitalentity' = digitalentity
          /\ owned' = st.own
          /\ cache' = st.cache
          /\ response' = [op |-> "save", strategy |-> "current", status |-> 500,
                          id |-> id, coll |-> "digitalentity",
                          val |-> Absent, writes |-> st.writes,
                          touched |-> {w.id : w \in st.writes},
                          after |-> PrecedingGet, stored |-> StoredIds,
                          held |-> cache,
                          yielded |-> {}]

\* the final upsert and resolve of addEntityToCollection
ResolveSaved(u, id, st) ==
  AnswerDigitalEntity(u, id, st,
    resolve(st.cache,
            [st.db EXCEPT !.digitalentity =
               SetKey(@, id, [persons |-> st.persons,
                              institutions |-> st.institutions])],
            id, "digitalentity"))

\* the state of a request that starts: RepoCache.flush() comes first
Start == [cache |-> CacheFlush, db |-> DB, own |-> owned, ok |-> TRUE,
          persons |-> <<>>, institutions |-> <<>>, writes |-> {}]

\* POST /push/digitalentity: addEntityToCollection with saveDigitalEntity
\* (a digital entity submitted without tags and physical entities)
AddDigitalEntity(u, id, ps, is) ==
  /\ nOps < MaxOps
  /\ CanAllocate(ps, is)
  /\ ResolveSaved(u, id, saveMetaDataEntity(Start, ps, is, id, u))
  /\ nOps' = nOps + 1
  /\ UNCHANGED <<physicalentity, annVars, ownerVars>>

----------------------------------------------------------------------------
(* Normalizer, earlier strategy: saveDigitalEntity with addAndGetId         *)

\* field['roles'] after addAndGetId(field, 'person') under context digId, for a
\* field that carries person_role and no new_roles: the stored record is
\* spread under the submitted one, so a submitted roles object replaces the
\* stored one; the submitted role list is appended to the context's list and
\* duplicates are dropped.
addAndGetIdRoles(sub, found, stored, digId) ==
  LET doRolesExist == sub.roles.def \/ found
      roles0 == IF sub.roles.def THEN sub.roles.map
                ELSE IF found THEN stored ELSE EmptyMap
      roles1 == SetKey(roles0, digId, IF digId \in DOMAIN roles0 THEN roles0[digId] ELSE <<>>)
  IN SetKey(roles1, digId,
            Dedup(IF doRolesExist THEN roles1[digId] \o sub.role ELSE sub.role))

\* addAndGetId(field, 'person'): find by _id, merge, upsert; yields the _id
addAndGetId(st, sub, digId) ==
  LET isIdValid == sub.id # NoId
      id == IF isIdValid THEN sub.id ELSE NewObjectId(PersonIds, st.db.person)
      found == id \in DOMAIN st.db.person
      stored == IF found THEN st.db.person[id].roles ELSE EmptyMap
  IN [st EXCEPT
        !.db.person = UpsertRoles(@, id, addAndGetIdRoles(sub, found, stored, digId),
                                  BlankPerson),
        !.persons = Append(@, id),
        !.writes = @ \cup {WriteRec("person", id, digId, sub, st.db.person,
                                        addAndGetIdRoles(sub, found, stored, digId))}]

RECURSIVE handleSimpleCases(_, _, _)
\* handleSimpleCases(digobj_person, 'person')
handleSimpleCases(st, subs, digId) ==
  IF subs = <<>> THEN st
  ELSE handleSimpleCases(addAndGetId(st, Head(subs), digId), Tail(subs), digId)

\* the answer of the earlier handler: resolve of the saved document
AnswerLegacy(u, id, st, de1, r) ==
  /\ person' = st.db.person
  /\ digitalentity' = de1
  /\ owned' = makeOwnerOf(owned, u, id)
  /\ cache' = r.cache
  /\ response' = [op |-> "save", strategy |-> "legacy", status |-> 200,
                  id |-> id, coll |-> "digitalentity",
                  val |-> r.val, writes |-> st.writes,
                  touched |-> {id} \cup {w.id : w \in st.writes},
                  after |-> PrecedingGet, stored |-> StoredIds,
                  yielded |-> Range(st.persons)]

\* The final upsert sets the digobj_ fields of the document and leaves its
\* persons and institutions as they are.
UpsertLegacy(u, id, st, de1) ==
  AnswerLegacy(u, id, st, de1,
               resolve(st.cache, [st.db EXCEPT !.digitalentity = de1], id,
                       "digitalentity"))

\* POST /push/digitalentity answered by the earlier saveDigitalEntity, for a
\* submission whose only nested records are the persons in digobj_person.
AddDigitalEntityLegacy(u, id, ps) ==
  /\ nOps < MaxOps
  /\ CanAllocate(ps, <<>>)
  /\ UpsertLegacy(u, id, handleSimpleCases(Start, ps, id),
                  IF id \in DOMAIN digitalentity THEN digitalentity
                  ELSE SetKey(digitalentity, id,
                              [persons |-> <<>>, institutions |-> <<>>]))
  /\ nOps' = nOps + 1
  /\ UNCHANGED <<institution, physicalentity, annVars, ownerVars>>

----------------------------------------------------------------------------
(* Normalizer: a digital entity submitted with a physical entity            *)

\* the state of a request that saves physical entities: the ids of the
\* physical entities saved so far, the writes made for the digital entity's
\* own persons and institutions (history) and the writes of parent documents
\* (history)
StartPhysical == Start @@ [phyObjs |-> <<>>, deWrites |-> {}, parents |-> {}]

\* the ids whose upsert the request has issued or that were stored before
Issued(db) ==
  DOMAIN db.person \cup DOMAIN db.institution \cup DOMAIN db.physicalentity

\* the write of a parent document (history): the ids it references and the
\* ids in the store at the moment of the write
ParentWrite(collName, id, doc, db) ==
  [coll |-> collName, id |-> id,
   refs |-> Range(doc.persons) \cup Range(doc.institutions)
              \cup (IF "phyObjs" \in DOMAIN doc THEN Range(doc.phyObjs) ELSE {}),
   issued |-> Issued(db)]

\* saveDigitalEntity: saveMetaDataEntity(digitalentity) has returned and the
\* loop over phyObjs begins
OwnRecordsSaved(st) == [st EXCEPT !.deWrites = st.writes]

\* the upsert of one physical entity under hid, st1 being the request after
\* saveMetaDataEntity(newEntity.phyObjs[i]) and st the request before it.
\* Here too the then-callback reads res.upsertedId._id and throws when the
\* physical entity was stored already.
UpsertPhysicalEntity(st, st1, hid, u) ==
  LET upserted == hid \notin DOMAIN st.db.physicalentity
  IN IF ~st1.ok
     THEN [st1 EXCEPT !.persons = st.persons, !.institutions = st.institutions]
     ELSE [st1 EXCEPT
             !.db.physicalentity = SetKey(@, hid, [persons |-> st1.persons,
                                                   institutions |-> st1.institutions]),
             !.own = IF upserted THEN makeOwnerOf(@, u, hid) ELSE @,
             !.ok = upserted,
             !.persons = st.persons,
             !.institutions = st.institutions,
             !.phyObjs = Append(@, hid),
             !.parents = @ \cup {ParentWrite("physicalentity", hid,
                                             [persons |-> st1.persons,
                                              institutions |-> st1.institutions],
                                             st1.db)}]

\* newEntity.phyObjs[i]._id = ObjectId.isValid(_id) ? _id : new ObjectId()
PhysicalId(ph) ==
  IF IsValidId(ph.id) THEN ph.id ELSE NewObjectId(PhysIds, physicalentity)

\* one turn of the loop over phyObjs: saveMetaDataEntity(newEntity.phyObjs[i])
\* runs with newEntity = the physical entity, so its savePerson reads the
\* physical entity's _id
savePhysicalEntity(st, ph, u) ==
  IF ~st.ok THEN st
  ELSE UpsertPhysicalEntity(st,
         saveMetaDataEntity([st EXCEPT !.persons = <<>>, !.institutions = <<>>],
                            ph.persons, <<>>, PhysicalId(ph), u),
         PhysicalId(ph), u)

\* the document of a digital entity saved with physical entities
PhysicalDoc(st) ==
  [persons |-> st.persons, institutions |-> st.institutions, phyObjs |-> st.phyObjs]

\* addEntityToCollection after saveDigitalEntity left st, de1 being the
\* collection 'digitalentity' after the final upsert and written the fields
\* the upsert sets
\* the request body as it arrived: the persons of the digital entity and its
\* physical entity
Requested(st, ps, ph) == st @@ [req |-> [persons |-> ps, phyObj |-> ph]]

AnswerPhysical(u, id, hid, strategy, st, de1, written, r) ==
  /\ person' = st.db.person
  /\ institution' = st.db.institution
  /\ physicalentity' = st.db.physicalentity
  /\ digitalentity' = IF st.ok THEN de1 ELSE digitalentity
  /\ owned' = IF st.ok THEN makeOwnerOf(st.own, u, id) ELSE st.own
  /\ cache' = IF st.ok THEN r.cache ELSE st.cache
  /\ response' = [op |-> "save", strategy |-> strategy, part |-> "physical",
                  status |-> IF st.ok THEN 200 ELSE 500,
                  id |-> id, hid |-> hid, coll |-> "digitalentity",
                  val |-> IF st.ok THEN r.val ELSE Absent,
                  writes |-> st.writes,
                  deWrites |-> st.deWrites,
                  phWrites |-> st.writes \ st.deWrites,
                  parents |-> IF st.ok
                              THEN st.parents \cup
                                   {ParentWrite("digitalentity", id, written, st.db)}
                              ELSE st.parents,
                  touched |-> {w.id : w \in st.writes},
                  after |-> PrecedingGet, stored |-> StoredIds,
                  yielded |-> Range(st.persons), req |-> st.req]

\* the final upsert and resolve of addEntityToCollection
ResolveSavedPhysical(u, id, hid, strategy, st, de1, written) ==
  AnswerPhysical(u, id, hid, strategy, st, de1, written,
                 resolve(st.cache, [st.db EXCEPT !.digitalentity = de1], id,
                         "digitalentity"))

UpsertPhysicalDoc(u, id, hid, st) ==
  ResolveSavedPhysical(u, id, hid, "current", st,
                       SetKey(digitalentity, id, PhysicalDoc(st)), PhysicalDoc(st))

\* enough unused ObjectIds for the records the request may create
CanAllocatePhysical(ps, ph) ==
  /\ Cardinality(Unused(PersonIds, person)) >= Len(ps) + Len(ph.persons)
  /\ Unused(PhysIds, physicalentity) # {}

\* POST /push/digitalentity: addEntityToCollection with saveDigitalEntity, for
\* a digital entity with persons ps and one physical entity ph with persons
AddDigitalEntityPhysical(u, id, ps, ph) ==
  /\ nOps < MaxOps
  /\ CanAllocatePhysical(ps, ph)
  /\ UpsertPhysicalDoc(u, id, PhysicalId(ph),
       savePhysicalEntity(OwnRecordsSaved(saveMetaDataEntity(Requested(StartPhysical, ps, ph), ps, <<>>, id, u)),
                          ph, u))
  /\ nOps' = nOps + 1
  /\ UNCHANGED <<annVars, ownerVars>>

ParentId(currentPhyObjId, deId) == deId

\* addAndGetId: const _digId = currentPhyObjId !== '' ? currentPhyObjId
\*                                                    : digitalentity._id
DigId(currentPhyObjId, deId) ==
  IF currentPhyObjId # "" THEN currentPhyObjId ELSE deId

\* the earlier saveDigitalEntity, one turn of the loop over phyObjs:
\* currentPhyObjId = phyObj._id, then the persons of the physical entity go
\* through handleSimpleCases and the physical entity through addAndGetId,
\* which tests updateResult.upsertedId and does not throw
UpsertLegacyPhysical(st, st1, hid) ==
  [st1 EXCEPT
     !.db.physicalentity = SetKey(@, hid, [persons |-> st1.persons,
                                           institutions |-> <<>>]),
     !.persons = st.persons,
     !.phyObjs = Append(@, hid),
     !.parents = @ \cup {ParentWrite("physicalentity", hid,
                                     [persons |-> st1.persons, institutions |-> <<>>],
                                     st1.db)}]

saveLegacyPhysical(st, ph, id) ==
  UpsertLegacyPhysical(st,
    handleSimpleCases([st EXCEPT !.persons = <<>>], ph.persons,
                      DigId(PhysicalId(ph), id)),
    PhysicalId(ph))

\* the document the earlier handler upserts: the stored persons and
\* institutions stay, phyObjs is set
LegacyPhysicalDoc(id, st) ==
  [persons |-> IF id \in DOMAIN digitalentity THEN digitalentity[id].persons ELSE <<>>,
   institutions |-> IF id \in DOMAIN digitalentity
                    THEN digitalentity[id].institutions ELSE <<>>,
   phyObjs |-> st.phyObjs]

UpsertLegacyPhysicalDoc(u, id, hid, st) ==
  ResolveSavedPhysical(u, id, hid, "legacy", st,
                       SetKey(digitalentity, id, LegacyPhysicalDoc(id, st)),
                       PhysicalDoc(st))

\* POST /push/digitalentity answered by the earlier saveDigitalEntity:
\* digobj_person first, under the digital entity's id (currentPhyObjId is ''),
\* then the physical entity
AddDigitalEntityLegacyPhysical(u, id, ps, ph) ==
  /\ nOps < MaxOps
  /\ CanAllocatePhysical(ps, ph)
  /\ UpsertLegacyPhysicalDoc(u, id, PhysicalId(ph),
       saveLegacyPhysical(OwnRecordsSaved(handleSimpleCases(Requested(StartPhysical, ps, ph), ps,
                                                            DigId("", id))),
                          ph, id))
  /\ nOps' = nOps + 1
  /\ UNCHANGED <<annVars, ownerVars>>

----------------------------------------------------------------------------
(* Ownership & annotation engine: saveAnnotation behind addEntityToCollection *)

\* saveBase64toImage / updatePreviewImage: an embedded base64 image is written
\* to the image store under (kind, id) and its path returned; a preview that
\* is a path already is returned as it is
saveBase64toImage(imgs, preview, kind, id) ==
  IF preview = "base64" THEN imgs \cup {[kind |-> kind, id |-> id]} ELSE imgs

\* a === b on two objects: true only of one and the same object; ref names the
\* allocation an object comes from (the request body, the store driver)
SameObject(a, b) == a.ref = b.ref

\* a and b hold the same content
EqualContent(a, b) == a.content = b.content

\* oldAnnotation.body === annotation.body
StrictEquals(a, b) == SameObject(a, b)

NoEntityGate(validCompilation, isEntityOwner) == FALSE

\* Case: trying to change default annotations:  !validCompilation && !isEntityOwner
EntityGateRejects(validCompilation, isEntityOwner) ==
  ~validCompilation /\ ~isEntityOwner

NoOwnerGate(isAnnotationOwner, isCompilationOwner) == FALSE

\* Case: neither the owner of the annotation nor of the compilation
OwnerGateRejects(isAnnotationOwner, isCompilationOwner) ==
  ~isAnnotationOwner /\ ~isCompilationOwner

AlwaysPush(list, annotationId) == Append(list, annotationId)

\* updateAnnotationList, on the annotationList of the resolved object: the id
\* is pushed unless the list holds it
updateAnnotationList(list, annotationId) ==
  IF annotationId \in Range(list) THEN list ELSE Append(list, annotationId)

\* coll.updateOne({ _id }, { $set: { annotationList } }): no upsert
SetAnnotationList(db, coll, id, list) ==
  IF coll = "compilation"
  THEN IF id \in DOMAIN db.compilation
       THEN [db EXCEPT !.compilation[id].annotationList = list] ELSE db
  ELSE IF id \in DOMAIN db.entity
       THEN [db EXCEPT !.entity[id].annotationList = list] ELSE db

\* what a step of saveAnnotation leaves behind
Outcome(kind, msg, c, db, own, imgs) ==
  [outcome |-> kind, message |-> msg, cache |-> c, db |-> db, own |-> own,
   images |-> imgs]

\* saveAnnotation from the permission gates on; old is what
\* Mongo.resolve(annotation, 'annotation') gives, c1 the cache when the list
\* is updated and obj what updateAnnotationList resolves the target to.
\* outcome "pending": updateAnnotationList reads annotationList of an
\* undefined object inside the promise executor, which neither resolves nor
\* rejects the promise.
saveAnnotationGates(c, db, own, imgs1, u, req, id, isAnnotationOwner, ack, old, obj) ==
  LET validCompilation == IsValidId(req.relatedCompilation)
      isEntityOwner == isOwner(own, u, req.relatedEntity)
      isCompilationOwner == isOwner(own, u, req.relatedCompilation)
      c1 == IF ~isAnnotationOwner /\ isCompilationOwner THEN old.cache ELSE c
      coll == IF validCompilation THEN "compilation" ELSE "entity"
      target == IF validCompilation THEN req.relatedCompilation ELSE req.relatedEntity
  IN IF EntityGateRejects(validCompilation, isEntityOwner)
     THEN Outcome("rejected", "Permission denied", c, db, own, imgs1)
     ELSE IF OwnerGateRejects(isAnnotationOwner, isCompilationOwner)
     THEN Outcome("rejected", "Permission denied", c, db, own, imgs1)
     ELSE IF /\ ~isAnnotationOwner
             /\ old.val.kind # "absent"
             /\ StrictEquals(old.val.body, req.body)
     THEN Outcome("rejected", "Permission denied", c1, db, own, imgs1)
     ELSE IF obj.val.kind = "absent"
     THEN Outcome("pending", "", obj.cache, db, own, imgs1)
     ELSE IF ~ack
     THEN Outcome("rejected", "", obj.cache, db, own, imgs1)
     ELSE Outcome("resolved", "",
                  obj.cache,
                  SetAnnotationList(db, coll, target,
                                    updateAnnotationList(obj.val.annotationList, id)),
                  IF isAnnotationOwner THEN makeOwnerOf(own, u, id) ELSE own,
                  imgs1)

\* the resolve inside updateAnnotationList, which follows the resolve of the
\* stored annotation when a compilation owner who is not the annotation's
\* owner came that far
\* Mongo.resolve(entityOrCompId, add_to_coll, 0) is what the list update
\* receives (kept as history with the outcome)
saveAnnotationReceived(c, db, own, imgs1, u, req, id, isAnnotationOwner, ack, old, obj) ==
  saveAnnotationGates(c, db, own, imgs1, u, req, id, isAnnotationOwner, ack, old, obj)
    @@ [received |-> obj.val]

saveAnnotationList(c, db, own, imgs1, u, req, id, isAnnotationOwner, ack, old) ==
  saveAnnotationReceived(c, db, own, imgs1, u, req, id, isAnnotationOwner, ack, old,
    resolveDepth(IF ~isAnnotationOwner /\ isOwner(own, u, req.relatedCompilation)
                 THEN old.cache ELSE c,
                 db,
                 IF IsValidId(req.relatedCompilation) THEN req.relatedCompilation
                 ELSE req.relatedEntity,
                 IF IsValidId(req.relatedCompilation) THEN "compilation" ELSE "entity",
                 Depth(0)))

NoShapeError(req) == ""

\* the checks of the submitted shape: target.source, then
\* body.content.relatedPerspective; "" when both are there
ShapeError(req) ==
  IF ~req.hasSource THEN "Invalid annotation"
  ELSE IF ~req.hasBody THEN "Missing body.content.relatedPerspective"
  ELSE ""

\* saveAnnotation(annotation, userData, doesEntityExist), annotation._id = id.
\* req is the submitted document: hasSource (target.source present), hasBody
\* (body.content.relatedPerspective present), body, preview, relatedEntity,
\* relatedCompilation; ack is result.ok = 1 of the annotationList update.
saveAnnotation(c, db, own, imgs, u, req, id, doesEntityExist, ack) ==
  LET imgs1 == saveBase64toImage(imgs, req.preview, "annotation", id)
  IN IF ShapeError(req) # ""
     THEN Outcome("rejected", ShapeError(req), c, db, own, imgs)
     ELSE IF req.relatedEntity = Undefined \/ req.relatedCompilation = Undefined
     THEN Outcome("rejected", "Related entity or compilation undefined", c, db, own, imgs1)
     ELSE IF ~IsValidId(req.relatedEntity)
     THEN Outcome("rejected", "Invalid related entity id", c, db, own, imgs1)
     ELSE saveAnnotationList(c, db, own, imgs1, u, req, id,
                             IF doesEntityExist THEN isOwner(own, u, id) ELSE TRUE,
                             ack, resolve(c, db, id, "annotation"))

\* the stored collections and records a request changed
Changed(db1, own1, imgs1) ==
  {n \in {"entity", "compilation", "annotation"} : db1[n] # DB[n]}
    \cup (IF own1 # owned THEN {"owned"} ELSE {})
    \cup (IF imgs1 # images THEN {"images"} ELSE {})

\* the stored annotationList the annotation req belongs on: the compilation's
\* when relatedCompilation is a valid id, else the entity's
TargetRecord(db, req) ==
  IF IsValidId(req.relatedCompilation)
  THEN StoredRecord(db, req.relatedCompilation, "compilation")
  ELSE StoredRecord(db, req.relatedEntity, "entity")

TargetList(db, req) ==
  IF IsValidId(req.relatedCompilation)
  THEN IF req.relatedCompilation \in DOMAIN db.compilation
       THEN db.compilation[req.relatedCompilation].annotationList ELSE <<>>
  ELSE IF req.relatedEntity \in DOMAIN db.entity
       THEN db.entity[req.relatedEntity].annotationList ELSE <<>>

\* new Date().toISOString() while a request is served: the stamps of the
\* store as earlier requests left it read Earlier
Earlier == "t0"

Now == "t" \o ToString(nOps + 1)

\* saveAnnotation, "Update data inside of annotation": generated is taken
\* from the submitted document when it carries one
Stamped(req, u) ==
  [generated |-> IF req.generated # Undefined THEN req.generated ELSE Now,
   lastModificationDate |-> Now,
   lastModifiedBy |-> u]

\* what the requester and the store held when the request arrived
Before(u, req, id) ==
  [existed |-> id \in DOMAIN annotation,
   list |-> TargetList(DB, req),
   record |-> TargetRecord(DB, req),
   annotationOwner |-> isOwner(owned, u, id),
   entityOwner |-> isOwner(owned, u, req.relatedEntity),
   compilationOwner |-> isOwner(owned, u, req.relatedCompilation),
   body |-> IF id \in DOMAIN annotation THEN annotation[id].body ELSE "none",
   generated |-> IF id \in DOMAIN annotation THEN annotation[id].generated
                 ELSE Undefined,
   now |-> Now]

\* addEntityToCollection after saveAnnotation left s, with db1 the store after
\* the upsert of the annotation and r the final resolve(resultId, coll): a
\* rejected save is answered 500 (status 0: no answer at all)
AnswerAnnotation(u, req, ack, id, s, db1, r) ==
  /\ entity' = db1.entity
  /\ compilation' = db1.compilation
  /\ annotation' = db1.annotation
  /\ owned' = s.own
  /\ images' = s.images
  /\ cache' = r.cache
  /\ response' = [op |-> "save", strategy |-> "annotation",
                  status |-> IF s.outcome = "resolved" THEN 200
                             ELSE IF s.outcome = "rejected" THEN 500 ELSE 0,
                  message |-> s.message, id |-> id, coll |-> "annotation",
                  val |-> r.val, writes |-> {},
                  touched |-> IF s.outcome = "resolved"
                              THEN {id, IF IsValidId(req.relatedCompilation)
                                        THEN req.relatedCompilation
                                        ELSE req.relatedEntity}
                              ELSE {},
                  after |-> PrecedingGet, user |-> u, req |-> req, ack |-> ack,
                  pre |-> Before(u, req, id),
                  received |-> IF "received" \in DOMAIN s THEN s.received ELSE Absent,
                  upsert |-> IF "upsert" \in DOMAIN s THEN s.upsert ELSE TRUE,
                  changed |-> Changed(db1, s.own, s.images),
                  kept |-> {}]

\* resolve(resultId, coll) after the upsert
ResolveAnnotation(u, req, ack, id, s, db1) ==
  \E r \in {IF s.outcome = "resolved"
            THEN resolve(s.cache, db1, id, "annotation")
            ELSE [val |-> Absent, cache |-> s.cache]} :
    AnswerAnnotation(u, req, ack, id, s, db1, r)

\* updateOne({ _id }, { $set: entity }, { upsert: true }) unless the save
\* was rejected
UpsertAnnotation(u, req, ack, id, s) ==
  \E db1 \in {IF s.outcome = "resolved"
              THEN [s.db EXCEPT !.annotation =
                      SetKey(@, id, [body |-> req.body.content,
                                     relatedEntity |-> req.relatedEntity,
                                     relatedCompilation |-> req.relatedCompilation]
                                    @@ Stamped(req, u))]
              ELSE s.db} :
    ResolveAnnotation(u, req, ack, id, s, db1)

\* new ObjectId() never repeats an id: the ids of the stored annotations and
\* the ids earlier requests put on an annotationList or an owner record are
\* taken
IssuedAnnotationIds ==
  [a \in DOMAIN annotation
          \cup UNION {Range(entity[e].annotationList) : e \in DOMAIN entity}
          \cup UNION {Range(compilation[k].annotationList) : k \in DOMAIN compilation}
          \cup UNION {owned[u] : u \in Users} |-> TRUE]

\* saveAnnotation resolved and the final updateOne gave no result:
\* 'Failed updating ...' is answered 500, after what saveAnnotation wrote
Unacknowledged(s) ==
  [outcome |-> "rejected", message |-> "Failed updating", cache |-> s.cache,
   db |-> s.db, own |-> s.own, images |-> s.images, upsert |-> FALSE]

FailedUpsert(u, req, ack, id, s) ==
  /\ s.outcome = "resolved"
  /\ AnswerAnnotation(u, req, ack, id, Unacknowledged(s), s.db,
                      [val |-> Absent, cache |-> s.cache])

\* addEntityToCollection with the annotation's _id settled; upsert tells
\* whether the final updateOne of the annotation is acknowledged
PushAnnotation(u, req, ack, upsert, id) ==
  \E s \in {saveAnnotation(CacheFlush, DB, owned, images, u, req, id,
                            IsValidId(req.id) /\ req.id \in DOMAIN annotation, ack)} :
    IF upsert THEN UpsertAnnotation(u, req, ack, id, s)
    ELSE FailedUpsert(u, req, ack, id, s)

\* POST /push/annotation: addEntityToCollection with saveAnnotation.
\* doesEntityExist is set by the request middleware: the submitted _id is
\* valid and the collection holds a record with it.
AddAnnotation(u, req, ack, upsert) ==
  /\ nOps < MaxAnnOps
  /\ IsValidId(req.id) \/ Unused(AnnIds, IssuedAnnotationIds) # {}
  /\ PushAnnotation(u, req, ack, upsert,
                    IF IsValidId(req.id) THEN req.id
                    ELSE NewObjectId(AnnIds, IssuedAnnotationIds))
  /\ nOps' = nOps + 1
  /\ UNCHANGED <<metaVars, ownerVars>>

\* POST /utility/... settings of an entity: updateEntitySettings
UpdateEntitySettings(id, settings, preview) ==
  /\ nOps < MaxAnnOps
  /\ LET imgs1 == saveBase64toImage(images, preview, "entity", id)
         ent1 == IF id \in DOMAIN entity
                 THEN [entity EXCEPT ![id].settings = settings] ELSE entity
     IN /\ images' = imgs1
        /\ entity' = ent1
        /\ response' = [op |-> "settings", status |-> 200, id |-> id,
                        coll |-> "entity", val |-> Absent, touched |-> {id},
                        after |-> PrecedingGet,
                        changed |-> Changed([DB EXCEPT !.entity = ent1], owned, imgs1),
                        kept |-> DOMAIN cache]
  /\ nOps' = nOps + 1
  /\ UNCHANGED <<metaVars, compilation, annotation, owned, cache, ownerVars>>

\* the answer of addAnnotationsToAnnotationList: resolve(compId, 'compilation')
AnswerAnnotations(u, compId, new, db1, r2) ==
  /\ annotation' = db1.annotation
  /\ compilation' = db1.compilation
  /\ owned' = makeOwnerOf(owned, u, new)
  /\ cache' = r2.cache
  /\ response' = [op |-> "copy", status |-> 200, message |-> "ok",
                  id |-> compId, coll |-> "compilation", val |-> r2.val,
                  touched |-> {compId, new}, after |-> PrecedingGet,
                  changed |-> Changed(db1, makeOwnerOf(owned, u, new), images),
                  kept |-> DOMAIN cache]

\* insertMany of the copies and the update of the compilation's annotationList
InsertAnnotations(u, compId, new, r1, db1) ==
  AnswerAnnotations(u, compId, new, db1, resolve(r1.cache, db1, compId, "compilation"))

\* the annotation resolved to r1 is copied under a new _id into the compilation
CopyAnnotations(u, compId, new, r1) ==
  /\ r1.val.kind # "absent"
  /\ InsertAnnotations(u, compId, new, r1,
       [DB EXCEPT !.annotation =
                    SetKey(@, new, [body |-> r1.val.body.content,
                                    relatedEntity |-> r1.val.relatedEntity,
                                    relatedCompilation |-> compId,
                                    generated |-> r1.val.generated,
                                    lastModificationDate |-> Now,
                                    lastModifiedBy |-> r1.val.lastModifiedBy]),
                  !.compilation[compId].annotationList = Append(@, new)])

\* after resolve(compId, 'compilation') gave r0
ValidateCompilation(u, compId, a, r0) ==
  IF r0.val.kind # "absent" /\ compId \in DOMAIN compilation
  THEN CopyAnnotations(u, compId, NewObjectId(AnnIds, IssuedAnnotationIds),
                       resolve(r0.cache, DB, a, "annotation"))
  ELSE /\ cache' = r0.cache
       /\ response' = [op |-> "copy", status |-> 200,
                       message |-> "Compilation not found",
                       id |-> compId, coll |-> "compilation", val |-> Absent,
                       touched |-> {}, after |-> PrecedingGet,
                       changed |-> {}, kept |-> DOMAIN cache]
       /\ UNCHANGED <<annotation, compilation, owned>>

\* Utility.addAnnotationsToAnnotationList for a list of one annotation id that
\* resolves: the annotation is copied under a new _id into the compilation,
\* whose annotationList gets the new id; the answer is resolve(compId).
AddAnnotationsToAnnotationList(u, compId, a) ==
  /\ nOps < MaxAnnOps
  /\ Unused(AnnIds, IssuedAnnotationIds) # {}
  /\ ValidateCompilation(u, compId, a, resolve(cache, DB, compId, "compilation"))
  /\ nOps' = nOps + 1
  /\ UNCHANGED <<metaVars, entity, images, ownerVars>>

\* old Utility.addAnnotationsToAnnotationList: the ids that pass
\* .filter(ann => ObjectId.isValid(ann)).filter(async ann => ...); the second
\* predicate returns a promise, which is truthy whatever it settles to
LegacyValidAnnotations(annotations) == SelectSeq(annotations, IsValidId)

\* the answer of the old addAnnotationsToAnnotationList
LegacyListAnswer(compId, annotations, status, msg) ==
  [op |-> "add", status |-> status, message |-> msg, id |-> compId,
   coll |-> "compilation", annotations |-> annotations,
   before |-> IF compId \in DOMAIN compilation
              THEN compilation[compId].annotationList ELSE <<>>]

\* old Utility.addAnnotationsToAnnotationList for a body with an array of
\* annotation ids: the ids kept by the filters are appended to the
\* annotationList of the compilation (the Set holds new ObjectId objects, none
\* equal to another); ack is updateResult.result.ok = 1
AddAnnotationsToAnnotationListLegacy(compId, annotations, ack) ==
  /\ nOps < MaxAnnOps
  /\ IF ~IsValidId(compId)
     THEN /\ response' = LegacyListAnswer(compId, annotations, "error",
                                          "Invalid compilation given")
          /\ UNCHANGED compilation
     ELSE IF compId \notin DOMAIN compilation
     THEN /\ response' = LegacyListAnswer(compId, annotations, "error",
                                          "Compilation not found")
          /\ UNCHANGED compilation
     ELSE IF ~ack
     THEN /\ response' = LegacyListAnswer(compId, annotations, "error",
                                          "Failed updating annotationList")
          /\ UNCHANGED compilation
     ELSE /\ response' = LegacyListAnswer(compId, annotations, "ok", "")
          /\ compilation' =
               [compilation EXCEPT ![compId].annotationList =
                  @ \o LegacyValidAnnotations(annotations)]
  /\ nOps' = nOps + 1
  /\ UNCHANGED <<metaVars, entity, annotation, images, owned, cache, ownerVars>>

\* Users.undoOwnerOf
undoOwnerOf(own, u, id) == [own EXCEPT ![u] = @ \ {id}]

\* DELETE of an annotation: removeEntityFromCollection, for a request whose
\* username matches the session's account u
RemoveEntityFromCollection(u, id) ==
  /\ nOps < MaxAnnOps
  /\ IF isOwner(owned, u, id)
     THEN /\ annotation' = Without(annotation, id)
          /\ owned' = undoOwnerOf(owned, u, id)
          /\ cache' = CacheFlush
          /\ response' = [op |-> "remove", status |-> 200, id |-> id,
                          coll |-> "annotation", val |-> Absent, touched |-> {id},
                          after |-> PrecedingGet,
                          changed |-> Changed([DB EXCEPT !.annotation = Without(annotation, id)],
                                              undoOwnerOf(owned, u, id), images),
                          kept |-> {}]
     ELSE /\ response' = [op |-> "remove", status |-> 401, id |-> id,
                          coll |-> "annotation", val |-> Absent, touched |-> {},
                          after |-> PrecedingGet, changed |-> {},
                          kept |-> DOMAIN cache]
          /\ UNCHANGED <<annotation, owned, cache>>
  /\ nOps' = nOps + 1
  /\ UNCHANGED <<metaVars, entity, compilation, images, ownerVars>>

\* DELETE of a person: removeEntityFromCollection with collection 'person',
\* for a request whose username matches the session's account u
RemovePerson(u, id) ==
  /\ nOps < MaxOps
  /\ IF isOwner(owned, u, id)
     THEN /\ person' = Without(person, id)
          /\ owned' = undoOwnerOf(owned, u, id)
          /\ cache' = CacheFlush
          /\ response' = [op |-> "remove", status |-> 200, id |-> id,
                          coll |-> "person", val |-> Absent, touched |-> {id},
                          after |-> PrecedingGet]
     ELSE /\ response' = [op |-> "remove", status |-> 401, id |-> id,
                          coll |-> "person", val |-> Absent, touched |-> {},
                          after |-> PrecedingGet]
          /\ UNCHANGED <<person, owned, cache>>
  /\ nOps' = nOps + 1
  /\ UNCHANGED <<institution, digitalentity, physicalentity, entity, compilation,
                 annotation, images, ownerVars>>

\* a delete that takes the persons and institutions of the document with it
CascadeDelete(db, coll, id) ==
  IF id \notin DOMAIN db[coll] THEN db
  ELSE [db EXCEPT ![coll] = Without(@, id),
                  !.person = [p \in DOMAIN @ \ Range(db[coll][id].persons) |-> @[p]],
                  !.institution = [i \in DOMAIN @ \ Range(db[coll][id].institutions) |-> @[i]]]

\* Repo.get(coll).deleteOne(query(_id))
deleteOne(db, coll, id) == [db EXCEPT ![coll] = Without(@, id)]

\* the number of DELETE requests of SpecRemove
MaxRemoveOps == 2

EveryEntity(own, u) == EntIds \cup CompIds \cup AnnIds

\* Array.prototype.concat(...Object.values(user.data)).map(id => id.toString())
UserRelatedEntities(own, u) == own[u]

\* removeEntityFromCollection: the status it answers and the store, the owner
\* records and the cache it leaves.  session is the account of the session
\* (Anonymous without one), username the one of the body, deleted the result
\* of deleteOne and undone the result of Users.undoOwnerOf.
removeEntityFromCollection(db, own, c, session, username, id, coll, deleted, undone) ==
  IF session = Anonymous
  THEN [status |-> 404, db |-> db, own |-> own, cache |-> c]
  ELSE IF username # session
  THEN [status |-> 403, db |-> db, own |-> own, cache |-> c]
  ELSE IF id \notin UserRelatedEntities(own, session)
  THEN [status |-> 401, db |-> db, own |-> own, cache |-> c]
  ELSE IF ~deleted
  THEN [status |-> 500, db |-> db, own |-> own, cache |-> c]
  ELSE IF ~undone
  THEN [status |-> 500, db |-> deleteOne(db, coll, id), own |-> own, cache |-> c]
  ELSE [status |-> 200, db |-> deleteOne(db, coll, id),
        own |-> undoOwnerOf(own, session, id), cache |-> CacheFlush]

\* DELETE /:collection/:identifier of an entity, a compilation or an annotation
RemoveFromCollection(session, username, id, coll, deleted, undone) ==
  /\ nOps < MaxRemoveOps
  /\ \E r \in {removeEntityFromCollection(DB, owned, cache, session, username, id,
                                          coll, deleted, undone)} :
       /\ entity' = r.db.entity
       /\ compilation' = r.db.compilation
       /\ annotation' = r.db.annotation
       /\ owned' = r.own
       /\ cache' = r.cache
       /\ response' = [op |-> "remove", status |-> r.status, id |-> id, coll |-> coll,
                       session |-> session, username |-> username,
                       deleted |-> deleted, undone |-> undone,
                       before |-> [db |-> DB, owned |-> owned, cache |-> cache]]
  /\ nOps' = nOps + 1
  /\ UNCHANGED <<metaVars, images, ownerVars>>

\* DELETE of a digital or physical entity: removeEntityFromCollection, for a
\* request whose username matches the session's account u
RemoveMetaDataEntity(u, id, coll) ==
  /\ nOps < MaxOps
  /\ LET allowed == isOwner(owned, u, id)
         db1 == IF allowed THEN deleteOne(DB, coll, id) ELSE DB
     IN /\ person' = db1.person
        /\ institution' = db1.institution
        /\ digitalentity' = db1.digitalentity
        /\ physicalentity' = db1.physicalentity
        /\ owned' = IF allowed THEN undoOwnerOf(owned, u, id) ELSE owned
        /\ cache' = IF allowed THEN CacheFlush ELSE cache
        /\ response' = [op |-> "remove", status |-> IF allowed THEN 200 ELSE 401,
                        id |-> id, coll |-> coll, val |-> Absent,
                        touched |-> IF allowed THEN {id} ELSE {},
                        after |-> PrecedingGet, before |-> DB]
  /\ nOps' = nOps + 1
  /\ UNCHANGED <<entity, compilation, annotation, images, ownerVars>>

----------------------------------------------------------------------------
(* Owner actions: Utility.applyActionToEntityOwner and, before it,         *)
(* Utility.applyActionToModelOwner.  A request runs from await to await:   *)
(* validation, the lookup of the account, the count of the owners (remove  *)
(* in applyActionToEntityOwner only), the update of the account.           *)

\* Bound on the number of owner actions started in one run.
MaxOwnerOps == 3

Commands    == {"add", "remove", "set"}
OwnerInputs == Users \cup {"u9", NoId}     \* u9: a valid id without an account
Versions    == {"entity", "model"}        \* applyActionToEntityOwner / ...ModelOwner

\* Utility.findAllEntityOwners: the accounts whose data.entity holds entityId
findAllEntityOwners(acc, entityId) ==
  {u \in DOMAIN acc : entityId \in Range(acc[u])}

PushOwner(list, id) == Append(list, id)

\* case 'add': the id is pushed unless an entry has its string form
addOwner(list, id) ==
  IF id \in Range(list) THEN list ELSE Append(list, id)

\* case 'remove': filter(entity => entity.toString() !== entityId.toString())
removeOwner(list, id) ==
  LET Other(e) == e # id IN SelectSeq(list, Other)

KeepLastOwner(entityUses) == FALSE

\* if (entityUses === 1): 'Cannot remove last owner'
LastOwnerGuard(entityUses) == entityUses = 1

\* the answer of an owner action (history: what it read, what the account
\* held just before the answer, whether the account was the only owner when
\* the request last looked)
OwnerAnswer(v, command, owner, entityId, status, msg, read, sole) ==
  [op |-> "owner", version |-> v, command |-> command, owner |-> owner,
   entityId |-> entityId, status |-> status, message |-> msg,
   read |-> read, sole |-> sole,
   before |-> IF owner \in DOMAIN accounts THEN accounts[owner] ELSE <<>>]

\* the message of the checks made before the first await; "" when they pass.
\* A missing entity passes: resolve answers null for it, which is not
\* undefined.
OwnerValidation(v, command, owner, entityId) ==
  IF command \notin {"add", "remove"}
  THEN "Invalid command. Use \"add\" or \"remove\""
  ELSE IF owner = NoId
  THEN IF v = "entity" THEN "Incorrect owner _id given" ELSE "Invalid LDAP identifier"
  ELSE IF ~IsValidId(entityId)
  THEN IF v = "entity" THEN "Invalid entity identifier" ELSE "Invalid model identifier"
  ELSE ""

\* the request arrives: validation up to await Mongo.resolve(entityId, ...)
StartOwnerAction(s, v, command, owner, entityId) ==
  /\ calls[s].pc = "idle"
  /\ nOps < MaxOwnerOps
  /\ nOps' = nOps + 1
  /\ LET msg == OwnerValidation(v, command, owner, entityId)
     IN IF msg # ""
        THEN /\ response' = OwnerAnswer(v, command, owner, entityId, "error", msg,
                                        <<>>, FALSE)
             /\ UNCHANGED calls
        ELSE /\ calls' = [calls EXCEPT ![s] =
                            [pc |-> "validated", version |-> v, command |-> command,
                             owner |-> owner, entityId |-> entityId]]
             /\ UNCHANGED response
  /\ UNCHANGED <<metaVars, annVars, owned, cache, accounts, Mongo>>

\* await ldap.findOne(findUserQuery), then the switch up to its next await
FindOwnerAccount(s) ==
  /\ calls[s].pc = "validated"
  /\ LET c == calls[s]
     IN IF c.owner \notin DOMAIN accounts
        THEN /\ response' = OwnerAnswer(c.version, c.command, c.owner, c.entityId,
                                        "error",
                                        IF c.version = "entity"
                                        THEN "Incorrect owner _id or username given"
                                        ELSE "Invalid LDAP identifier",
                                        <<>>, FALSE)
             /\ calls' = [calls EXCEPT ![s] = Idle]
        ELSE LET read == accounts[c.owner]
                 sole == findAllEntityOwners(accounts, c.entityId) = {c.owner}
                 found == [c EXCEPT !.pc = "found"] @@
                            [read |-> read, data |-> read, sole |-> sole]
             IN /\ calls' = [calls EXCEPT ![s] =
                     IF c.command = "add"
                     THEN [found EXCEPT !.pc = "ready",
                                        !.data = addOwner(read, c.entityId)]
                     ELSE IF c.version = "model"
                     THEN [found EXCEPT !.pc = "ready",
                                        !.data = removeOwner(read, c.entityId)]
                     ELSE found]
                /\ UNCHANGED response
  /\ UNCHANGED <<metaVars, annVars, owned, cache, accounts, Mongo, nOps>>

\* case 'remove' of applyActionToEntityOwner:
\* await Utility.findAllEntityOwners(entityId), then the guard and the filter
CountEntityOwners(s) ==
  /\ calls[s].pc = "found"
  /\ LET c == calls[s]
         owners == findAllEntityOwners(accounts, c.entityId)
     IN IF LastOwnerGuard(Cardinality(owners))
        THEN /\ response' = OwnerAnswer(c.version, c.command, c.owner, c.entityId,
                                        "error", "Cannot remove last owner",
                                        c.read, owners = {c.owner})
             /\ calls' = [calls EXCEPT ![s] = Idle]
        ELSE /\ calls' = [calls EXCEPT ![s] =
                            [c EXCEPT !.pc = "ready",
                                      !.sole = (owners = {c.owner}),
                                      !.data = removeOwner(c.data, c.entityId)]]
             /\ UNCHANGED response
  /\ UNCHANGED <<metaVars, annVars, owned, cache, accounts, Mongo, nOps>>

\* await ldap.updateOne(findUserQuery, { $set: { data: account.data } }) and
\* the answer; ack is updateResult.result.ok = 1
UpdateOwnerAccount(s, ack) ==
  /\ calls[s].pc = "ready"
  /\ LET c == calls[s]
     IN /\ accounts' = IF ack THEN [accounts EXCEPT ![c.owner] = c.data] ELSE accounts
        /\ response' = OwnerAnswer(c.version, c.command, c.owner, c.entityId,
                                   IF ack THEN "ok" ELSE "error",
                                   IF ack THEN "" ELSE "Failed updating entity array",
                                   c.read, c.sole)
  /\ calls' = [calls EXCEPT ![s] = Idle]
  /\ UNCHANGED <<metaVars, annVars, owned, cache, nOps, Mongo>>

----------------------------------------------------------------------------
(* Explore/filter scanner: the explore handler of Utility.  A cursor over   *)
(* the entities or the compilations, sorted by name, is consumed one         *)
(* document at a time; each document is resolved and passed through the      *)
(* filter chain; the result set is cached under the hash of the request body. *)
(* Text is a list of letters.                                                *)

\* Bound on the number of explore requests in one run.
MaxExploreOps == 2

\* const limit = 30, scaled to the size of the stores of SpecExplore
limit == 2

Letters == {"A", "B", "C", "a", "b", "c"}
Lower == [ch \in Letters |->
            IF ch = "A" THEN "a" ELSE IF ch = "B" THEN "b" ELSE IF ch = "C" THEN "c" ELSE ch]
Code == [ch \in Letters |->
          CASE ch = "A" -> 65 [] ch = "B" -> 66 [] ch = "C" -> 67
            [] ch = "a" -> 97 [] ch = "b" -> 98 [] ch = "c" -> 99]

\* String.prototype.toLowerCase
toLowerCase(s) == [i \in 1..Len(s) |-> Lower[s[i]]]

\* String.prototype.includes
includes(text, pat) ==
  \E i \in 0..(Len(text) - Len(pat)) : SubSeq(text, i + 1, i + Len(pat)) = pat

RECURSIVE NameBefore(_, _)
\* the order of sort({ name: 1 }): letter by letter, by code
NameBefore(s, t) ==
  IF s = <<>> THEN t # <<>>
  ELSE IF t = <<>> THEN FALSE
  ELSE IF s[1] # t[1] THEN Code[s[1]] < Code[t[1]]
  ELSE NameBefore(Tail(s), Tail(t))

\* a.name.localeCompare(b.name) < 0: letters compared without their case first,
\* a lower-case letter before its upper-case letter on a tie
localeCompare(s, t) ==
  IF toLowerCase(s) # toLowerCase(t) THEN NameBefore(toLowerCase(s), toLowerCase(t))
  ELSE NameBefore(t, s)

ExploreEntIds  == <<"E1", "E2", "E3">>
ExploreCompIds == <<"K1", "K2", "K3">>

\* RepoCache.hash(req.body): a deterministic key of the request body
hash(body) == ToString(body)

\* resolve(doc, coll) as explore sees it, r being what the lookup and the
\* resolving strategy give: the stored document with its references replaced
ExploreResolved(doc, r) ==
  IF r.val.kind = "absent" THEN Absent ELSE Spread(doc, r.val)

\* resolve(doc, coll) of each document of the cursor
Resolutions(c, db, coll, cursor) ==
  [id \in Range(cursor) |->
     [val |-> ExploreResolved(db[coll][id], Lookup(c, db, id, coll)),
      cache |-> Lookup(c, db, id, coll).cache]]

\* userOwned.includes(resolved._id.toString()); userOwned is '' without a session
ExploreIsOwner(own, u, id) == u # Anonymous /\ isOwner(own, u, id)

\* JSON.stringify(resolved.whitelist).includes(userData._id.toString())
IsWhitelisted(r, u) == u \in r.whitelist.persons

\* JSON.stringify(resolved), as far as it differs between the documents
Metadata(r) == r.name

\* the filter chain of the entity search: TRUE when the entity is pushed
KeepsEntity(own, u, body, r) ==
  LET owner == ExploreIsOwner(own, u, r._id)
      metadata == toLowerCase(Metadata(r))
      isAnnotatable == owner
      isAnnotated == DOMAIN r.annotations # {}
      visible == r.whitelist.enabled => (u # Anonymous /\ (owner \/ IsWhitelisted(r, u)))
      isRestricted == r.whitelist.enabled
  IN /\ ~(body.filters.annotatable /\ ~isAnnotatable)
     /\ ~(body.filters.annotated /\ ~isAnnotated)
     /\ visible
     /\ ~(body.filters.restricted /\ ~isRestricted)
     /\ ~(body.searchText # <<>> /\ ~includes(metadata, body.searchText))

\* the filter chain of the compilation search
KeepsCompilation(own, u, body, r) ==
  LET owner == ExploreIsOwner(own, u, r._id)
      isPWProtected == r.password # Undefined /\ r.password # ""
      whitelisted == r.whitelist.enabled /\ u # Anonymous /\ IsWhitelisted(r, u)
      isAnnotatable == IF owner THEN TRUE ELSE whitelisted
      isAnnotated == DOMAIN r.annotations # {}
  IN /\ DOMAIN r.entities # {}
     /\ ~(/\ body.searchText # <<>>
          /\ ~includes(toLowerCase(r.name), body.searchText)
          /\ ~includes(toLowerCase(r.description), body.searchText))
     /\ ~(body.filters.annotatable /\ ~isAnnotatable)
     /\ ~(isPWProtected /\ ~owner /\ ~isAnnotatable)
     /\ ~(body.filters.restricted /\ isPWProtected)
     /\ ~(body.filters.annotated /\ ~isAnnotated)

Keeps(own, u, body, r, coll) ==
  IF coll = "entity" THEN KeepsEntity(own, u, body, r)
  ELSE KeepsCompilation(own, u, body, r)

\* what is pushed: the entity with its digital entity cut down to description
\* and licence, the compilation with its password cut down to a flag
Item(r, coll) ==
  IF coll = "entity" THEN [r EXCEPT !.relatedDigitalEntity = [kind |-> "excerpt"]]
  ELSE [r EXCEPT !.password = (r.password # Undefined /\ r.password # "")]

NoLimit(hasNext, n, types) == hasNext /\ Len(types) > 0

\* (await cursor.hasNext()) && entities.length < limit && types.length > 0
canContinue(hasNext, n, types) == hasNext /\ n < limit /\ Len(types) > 0

\* the documents the loop pushes out of the first n of the cursor
Pushed(own, u, body, coll, cursor, rs, n) ==
  SelectSeq(SubSeq(cursor, 1, n),
            LAMBDA id : /\ rs[id].val.kind # "absent"
                        /\ Keeps(own, u, body, rs[id].val, coll))

\* how many documents the while loop takes from the cursor: it goes on as
\* long as canContinue() holds
Consumed(own, u, body, coll, cursor, rs) ==
  CHOOSE n \in 0..Len(cursor) :
    \A m \in 0..n :
      canContinue(m < Len(cursor), Len(Pushed(own, u, body, coll, cursor, rs, m)),
                  body.types) <=> m < n

\* the cache after the documents ids were resolved one after the other
ScanCache(c, rs, ids) ==
  [k \in DOMAIN c \cup UNION {DOMAIN rs[id].cache : id \in ids} |->
     IF k \in DOMAIN c THEN c[k]
     ELSE rs[CHOOSE id \in ids : k \in DOMAIN rs[id].cache].cache[k]]

\* the while loop over the cursor, which takes n documents and pushes pushed
Scan(c, coll, cursor, rs, pushed, n) ==
  [items |-> [j \in 1..Len(pushed) |-> Item(rs[pushed[j]].val, coll)],
   consumed |-> SubSeq(cursor, 1, n),
   left |-> SubSeq(cursor, n + 1, Len(cursor)),
   cache |-> ScanCache(c, rs, Range(SubSeq(cursor, 1, n)))]

\* findCursor(query).sort({ name: 1 }).skip(offset)
Cursor(db, body) ==
  LET coll == IF body.searchEntity THEN "entity" ELSE "compilation"
      ids == IF body.searchEntity THEN ExploreEntIds ELSE ExploreCompIds
      Matches(id) ==
        /\ id \in DOMAIN db[coll]
        /\ body.searchEntity =>
             /\ db.entity[id].finished
             /\ db.entity[id].online
             /\ db.entity[id].mediaType \in Range(body.types)
      sorted == SortSeq(SelectSeq(ids, Matches),
                        LAMBDA a, b : NameBefore(db[coll][a].name, db[coll][b].name))
  IN SubSeq(sorted, body.offset + 1, Len(sorted))

\* temp && temp?.length > 0
ServedFromCache(c, body) == hash(body) \in DOMAIN c /\ Len(c[hash(body)]) > 0

\* the handler, rs being the resolve of each document of the cursor
explore(c, own, u, body, coll, cursor, rs) ==
  IF ServedFromCache(c, body)
  THEN [items |-> c[hash(body)], consumed |-> <<>>, cache |-> c, left |-> <<>>,
        fromCache |-> TRUE]
  ELSE Scan(c, coll, cursor, rs,
            Pushed(own, u, body, coll, cursor, rs, Consumed(own, u, body, coll, cursor, rs)),
            Consumed(own, u, body, coll, cursor, rs)) @@ [fromCache |-> FALSE]

\* res.status(200).send(items.sort(...)); RepoCache.set(reqHash, items)
Explored(u, body, r, items) ==
  /\ response' = [op |-> "explore", user |-> u, body |-> body, status |-> 200,
                  items |-> items, consumed |-> r.consumed, left |-> r.left,
                  fromCache |-> r.fromCache]
  /\ cache' = CacheSet(r.cache, hash(body), items)

\* POST /utility/explore by the session user u (Anonymous without a session)
Explore(u, body) ==
  /\ nOps < MaxExploreOps
  /\ \E coll \in {IF body.searchEntity THEN "entity" ELSE "compilation"},
        cursor \in {Cursor(DB, body)} :
       \E rs \in {Resolutions(cache, DB, coll, cursor)} :
         \E r \in {explore(cache, owned, u, body, coll, cursor, rs)} :
           Explored(u, body, r,
                    SortSeq(r.items, LAMBDA a, b : localeCompare(a.name, b.name)))
  /\ nOps' = nOps + 1
  /\ UNCHANGED <<metaVars, annVars, owned, ownerVars>>

\* _pw && _pw !== ''
isPasswordProtected(pw) == pw # Undefined /\ pw # ""

AnyPassword(pw, password) == TRUE

\* _pw && _pw === password
isPasswordCorrect(pw, password) == pw # Undefined /\ pw # "" /\ pw = password

\* the passwords a request carries; '' stands for no :password parameter
Passwords == {"", "pw", "xx"}

\* the answer of getEntityFromCollection for a compilation resolved to val:
\* 404 without a document, else 200 with the compilation or with no body
SendCompilation(u, id, password, val) ==
  response' = [op |-> "get", user |-> u, id |-> id, password |-> password,
               status |-> IF val.kind = "absent" THEN 404 ELSE 200,
               sent |-> /\ val.kind # "absent"
                        /\ \/ ~isPasswordProtected(val.password)
                           \/ ExploreIsOwner(owned, u, id)
                           \/ isPasswordCorrect(val.password, password),
               val |-> val]

\* GET /api/v1/get/find/compilation/:identifier/:password? by the session
\* user u (Anonymous without a session)
GetCompilationFromCollection(u, id, password) ==
  /\ nOps < MaxExploreOps
  /\ \E r \in {Lookup(cache, DB, id, "compilation")} :
       /\ cache' = r.cache
       /\ SendCompilation(u, id, password,
                          IF id \in DOMAIN compilation
                          THEN ExploreResolved(compilation[id], r) ELSE Absent)
  /\ nOps' = nOps + 1
  /\ UNCHANGED <<metaVars, annVars, owned, ownerVars>>

----------------------------------------------------------------------------
(* Specification of the metadata graph: digital entities, persons,         *)
(* institutions, the cache                                                 *)

PersonLists == {<<>>} \cup {<<p>> : p \in Submitted({"P1"}, RoleInputs, SubmittedRoleMaps)}
InstLists   == {<<>>} \cup {<<i>> : i \in Submitted({"I1"}, {<<"AUTHOR">>}, {NoRoles})}

\* A store as earlier saves left it: person P1 and institution I1 are shared by
\* the digital entities A and B (P1 with or without a role under B).
SeedRoles == {[k \in {"A", "B"} |-> IF k = "A" THEN <<"AUTHOR">> ELSE <<"EDITOR">>],
              [k \in {"A"} |-> <<"AUTHOR">>]}

InitMeta ==
  /\ \E r \in SeedRoles :
       person = [p \in {"P1"} |->
                  [roles |-> r,
                   institutions |-> [k \in DOMAIN r |-> IF k = "A" THEN <<"I1">> ELSE <<"I2">>],
                   contact_references |-> [k \in DOMAIN r |-> <<k>>]]]
  /\ institution = [i \in {"I1"} |->
                     [roles |-> [k \in {"A", "B"} |-> <<"EDITOR">>],
                      addresses |-> [k \in {"A", "B"} |-> <<k>>],
                      notes |-> [k \in {"A", "B"} |-> <<k>>]]]
  /\ digitalentity = [d \in DEIds |-> [persons |-> <<"P1">>, institutions |-> <<>>]]
  /\ physicalentity = EmptyMap
  /\ entity = EmptyMap
  /\ compilation = EmptyMap
  /\ annotation = EmptyMap
  /\ owned = [u \in Users |-> {}]
  /\ images = {}
  /\ cache = EmptyMap
  /\ response = [op |-> "none"]
  /\ nOps = 0
  /\ accounts = NoAccounts
  /\ calls = NoCalls
  /\ Mongo = Connected

NextMeta ==
  \/ \E id \in DEIds : GetEntityFromCollection(id, "digitalentity")
  \/ \E id \in PersonIds : GetEntityFromCollection(id, "person")
  \/ \E u \in {"u1"}, id \in DEIds, ps \in PersonLists, is \in InstLists :
       AddDigitalEntity(u, id, ps, is)
  \/ \E u \in {"u1"}, id \in DEIds, ps \in PersonLists :
       AddDigitalEntityLegacy(u, id, ps)

SpecMeta == InitMeta /\ [][NextMeta]_vars

----------------------------------------------------------------------------
(* Specification of the annotation engine: entities, compilations,         *)
(* annotations, owner records, the image store, the cache                  *)

Bodies == {"b1", "b2"}

\* well-formed annotations: a stored one (X) or one without _id, entity-scoped
\* (no valid compilation id) or scoped to the stored compilation
WellFormed ==
  {[id |-> a, hasSource |-> TRUE, hasBody |-> TRUE,
    body |-> [ref |-> "req", content |-> b], preview |-> p,
    relatedEntity |-> "E1", relatedCompilation |-> k,
    generated |-> IF a = "X" THEN Earlier ELSE Undefined] :
     a \in {"X", NoId}, b \in Bodies, p \in {"path", "base64"},
     k \in {"K1", NoId}}

\* the well-formed annotation the malformed ones differ from
Sample == [id |-> "X", hasSource |-> TRUE, hasBody |-> TRUE,
           body |-> [ref |-> "req", content |-> "b1"], preview |-> "base64",
           relatedEntity |-> "E1", relatedCompilation |-> "K1",
           generated |-> Earlier]

\* the stored annotation resubmitted without its 'generated', or with another
Restamped == {[Sample EXCEPT !.generated = g] : g \in {Undefined, "t9"}}

Malformed ==
  {[Sample EXCEPT !.hasSource = FALSE],
   [Sample EXCEPT !.hasBody = FALSE],
   [Sample EXCEPT !.relatedEntity = Undefined],
   [Sample EXCEPT !.relatedEntity = NoId],
   [Sample EXCEPT !.relatedCompilation = Undefined]}

\* an annotation whose compilation is not stored
Dangling == {[Sample EXCEPT !.relatedCompilation = "K2"]}

\* result.ok of the annotationList update: 1, or not 1 (tried on the
\* annotations that carry no embedded image)
Acks(req) == IF req.preview = "path" THEN BOOLEAN ELSE {TRUE}

\* A store as earlier requests left it: entity E1 (owned by u1) is part of
\* compilation K1 (owned by u2); annotation X (owned by u1) is on E1, either
\* scoped to K1 or entity-scoped; u3 owns nothing.  Compilation K2 is not
\* stored.
InitAnn ==
  /\ person = EmptyMap
  /\ institution = EmptyMap
  /\ digitalentity = EmptyMap
  /\ physicalentity = EmptyMap
  /\ \E k \in {"K1", NoId} :
       /\ entity = [e \in {"E1"} |->
                     [annotationList |-> IF k = NoId THEN <<"X">> ELSE <<>>,
                      annotations |-> IF k = NoId THEN {"X"} ELSE {},
                      settings |-> "s1", relatedDigitalEntity |-> "A"]]
       /\ compilation = [c \in {"K1"} |->
                          [annotationList |-> IF k = NoId THEN <<>> ELSE <<"X">>,
                           annotations |-> IF k = NoId THEN {} ELSE {"X"},
                           entities |-> {"E1"}]]
       /\ annotation = [a \in {"X"} |->
                         [body |-> "b1", relatedEntity |-> "E1",
                          relatedCompilation |-> k, generated |-> Earlier,
                          lastModificationDate |-> Earlier,
                          lastModifiedBy |-> "u1"]]
  /\ owned = [u \in Users |->
               IF u = "u1" THEN {"E1", "X"} ELSE IF u = "u2" THEN {"K1"} ELSE {}]
  /\ images = {}
  /\ cache = EmptyMap
  /\ response = [op |-> "none"]
  /\ nOps = 0
  /\ accounts = NoAccounts
  /\ calls = NoCalls
  /\ Mongo = Connected

NextAnn ==
  \/ \E id \in EntIds : GetEntityFromCollection(id, "entity")
  \/ \E id \in CompIds : GetEntityFromCollection(id, "compilation")
  \/ \E id \in AnnIds : GetEntityFromCollection(id, "annotation")
  \/ \E u \in Users, req \in WellFormed \cup Restamped \cup Malformed \cup Dangling :
       \E ack \in Acks(req), upsert \in BOOLEAN : AddAnnotation(u, req, ack, upsert)
  \/ \E id \in EntIds, s \in {"s1", "s2"}, p \in {"path", "base64"} :
       UpdateEntitySettings(id, s, p)
  \/ \E u \in Users, k \in CompIds, a \in AnnIds :
       AddAnnotationsToAnnotationList(u, k, a)
  \/ \E u \in Users, id \in AnnIds : RemoveEntityFromCollection(u, id)

SpecAnn == InitAnn /\ [][NextAnn]_vars

----------------------------------------------------------------------------
(* Specification of the saves with a physical entity                        *)

\* persons submitted without a roles object of their own
DEPersonLists ==
  {<<>>} \cup {<<p>> : p \in Submitted({"P1"}, {<<"AUTHOR">>}, {NoRoles})}
    \cup {<<p, q>> : p \in Submitted({"P1"}, {<<"AUTHOR">>}, {NoRoles}),
                     q \in Submitted({"P2"}, {<<"EDITOR">>}, {NoRoles})}
PhysPersonLists ==
  {<<>>} \cup {<<p>> : p \in Submitted({"P1"}, {<<"EDITOR">>}, {NoRoles})}
PhysInputs == [id : {"H1", NoId}, persons : PhysPersonLists]

\* the store holds no person, or person P1 with a role under another digital
\* entity, and no digital or physical entity
InitPhys ==
  /\ person \in {EmptyMap,
                  [p \in {"P1"} |-> [BlankPerson EXCEPT !.roles = [d \in {"B"} |-> <<"AUTHOR">>]]]}
  /\ institution = EmptyMap
  /\ digitalentity = EmptyMap
  /\ physicalentity = EmptyMap
  /\ cache = EmptyMap
  /\ owned = [u \in Users |-> {}]
  /\ response = [op |-> "none"]
  /\ nOps = 0
  /\ entity = EmptyMap
  /\ compilation = EmptyMap
  /\ annotation = EmptyMap
  /\ images = {}
  /\ accounts = NoAccounts
  /\ calls = NoCalls
  /\ Mongo = Connected

NextPhys ==
  \/ \E id \in {"A"} : GetEntityFromCollection(id, "digitalentity")
  \/ \E u \in {"u1"}, id \in {"A"}, ps \in DEPersonLists, ph \in PhysInputs :
       AddDigitalEntityPhysical(u, id, ps, ph)
  \/ \E u \in {"u1"}, id \in {"A"}, ps \in DEPersonLists, ph \in PhysInputs :
       AddDigitalEntityLegacyPhysical(u, id, ps, ph)
  \/ \E u \in {"u1"}, id \in PersonIds : RemovePerson(u, id)
  \/ \E u \in {"u1"}, id \in {"A"} : RemoveMetaDataEntity(u, id, "digitalentity")
  \/ \E u \in {"u1"}, id \in PhysIds : RemoveMetaDataEntity(u, id, "physicalentity")

SpecPhys == InitPhys /\ [][NextPhys]_vars

----------------------------------------------------------------------------
(* Requests in flight.  A request is a call in a slot of calls; the steps   *)
(* between which it reads or writes the cache, the store or the owner       *)
(* records are actions of their own, and the steps of two requests          *)
(* interleave.                                                              *)

\* the number of requests of the specifications of requests in flight
MaxRaceOps == 3

\* a call at position pc: a GET (kind "get") or a save (kind "save") of the
\* document id of collection coll; doc is the submitted document, read what the
\* call has read from the store
Call(pc, kind, u, id, coll, doc) ==
  [pc |-> pc, kind |-> kind, user |-> u, id |-> id, coll |-> coll, doc |-> doc,
   read |-> Absent]

\* findOne and the resolving strategy, for a record whose nested references
\* are empty
FromStore(db, id, coll) == Lookup(EmptyMap, db, id, coll).val

\* the answer of a call that ends with resolve(id, coll) giving val
Completed(c, val) ==
  [op |-> c.kind, id |-> c.id, coll |-> c.coll, val |-> val, user |-> c.user,
   status |-> IF c.kind = "get" /\ val.kind = "absent" THEN 404 ELSE 200]

\* getEntityFromCollection up to await resolve(_id, coll)
StartResolve(s, id, coll) ==
  /\ calls[s].pc = "idle"
  /\ nOps < MaxRaceOps
  /\ nOps' = nOps + 1
  /\ calls' = [calls EXCEPT ![s] = Call("cacheGet", "get", Anonymous, id, coll, Absent)]
  /\ UNCHANGED <<metaVars, annVars, owned, cache, response, accounts, Mongo>>

\* resolve: await RepoCache.get(parsedId); a hit is returned, an entry
\* without _id is deleted
ResolveCacheGet(s) ==
  /\ calls[s].pc = "cacheGet"
  /\ IF CacheHit(cache, calls[s].id)
     THEN /\ response' = Completed(calls[s], cache[calls[s].id])
          /\ calls' = [calls EXCEPT ![s] = Idle]
          /\ UNCHANGED cache
     ELSE /\ calls' = [calls EXCEPT ![s].pc = "findOne"]
          /\ cache' = Evicted(cache, calls[s].id)
          /\ UNCHANGED response
  /\ UNCHANGED <<metaVars, annVars, owned, accounts, Mongo, nOps>>

\* resolve: Repo.get(coll).findOne(query(_id)) and the resolving strategy
ResolveFindOne(s) ==
  /\ calls[s].pc = "findOne"
  /\ calls' = [calls EXCEPT ![s].pc = "cacheSet",
                            ![s].read = FromStore(DB, calls[s].id, calls[s].coll)]
  /\ UNCHANGED <<metaVars, annVars, owned, cache, response, accounts, Mongo, nOps>>

\* resolve: if (result) await RepoCache.set(parsedId, result); return result
ResolveCacheSet(s) ==
  /\ calls[s].pc = "cacheSet"
  /\ cache' = IF calls[s].read.kind # "absent"
              THEN CacheSet(cache, calls[s].id, calls[s].read) ELSE cache
  /\ response' = Completed(calls[s], calls[s].read)
  /\ calls' = [calls EXCEPT ![s] = Idle]
  /\ UNCHANGED <<metaVars, annVars, owned, accounts, Mongo, nOps>>

\* addEntityToCollection of a compilation, up to await savingPromise:
\* RepoCache.flush() comes first
StartAddCompilation(s, u, id, list) ==
  /\ calls[s].pc = "idle"
  /\ nOps < MaxRaceOps
  /\ nOps' = nOps + 1
  /\ cache' = CacheFlush
  /\ calls' = [calls EXCEPT ![s] =
                 Call("saving", "save", u, id, "compilation", [annotationList |-> list])]
  /\ UNCHANGED <<metaVars, annVars, owned, response, accounts, Mongo>>

\* saveCompilation: await Mongo.insertCurrentUserData(userData, compilation._id)
SaveCompilation(s) ==
  /\ calls[s].pc = "saving"
  /\ owned' = makeOwnerOf(owned, calls[s].user, calls[s].id)
  /\ calls' = [calls EXCEPT ![s].pc = "updateOne"]
  /\ UNCHANGED <<metaVars, annVars, cache, response, accounts, Mongo, nOps>>

\* addEntityToCollection: await updateOne({ _id }, { $set: entity }, { upsert:
\* true }), then resolve(resultId, coll)
UpdateOneCompilation(s) ==
  /\ calls[s].pc = "updateOne"
  /\ compilation' =
       IF calls[s].id \in DOMAIN compilation
       THEN [compilation EXCEPT ![calls[s].id].annotationList =
                                   calls[s].doc.annotationList]
       ELSE SetKey(compilation, calls[s].id,
                   [annotationList |-> calls[s].doc.annotationList,
                    annotations |-> {}, entities |-> {}])
  /\ calls' = [calls EXCEPT ![s].pc = "cacheGet"]
  /\ UNCHANGED <<metaVars, entity, annotation, images, owned, cache, response,
                 accounts, Mongo, nOps>>

\* the collection and the id of the object whose annotationList the
\* annotation doc belongs on: entityOrCompId and requestedCollection
ListOf(doc) ==
  IF IsValidId(doc.relatedCompilation)
  THEN [coll |-> "compilation", id |-> doc.relatedCompilation]
  ELSE [coll |-> "entity", id |-> doc.relatedEntity]

\* addEntityToCollection of a well-formed annotation whose preview is a path,
\* up to await savingPromise: RepoCache.flush() comes first; doesEntityExist
\* was looked up when the request arrived
StartAddAnnotation(s, u, id, k) ==
  /\ calls[s].pc = "idle"
  /\ nOps < MaxRaceOps
  /\ nOps' = nOps + 1
  /\ cache' = CacheFlush
  /\ calls' = [calls EXCEPT ![s] =
                 Call("gates", "save", u, id, "annotation",
                      [relatedEntity |-> "E1", relatedCompilation |-> k,
                       generated |-> Undefined, time |-> Now,
                       doesEntityExist |-> id \in DOMAIN annotation,
                       isAnnotationOwner |-> FALSE])]
  /\ UNCHANGED <<metaVars, annVars, owned, response, accounts, Mongo>>

\* saveAnnotation from isUserOwnerOfEntity to the permission gates; a
\* compilation owner who does not own the annotation has it resolved
AnnotationGates(s) ==
  /\ calls[s].pc = "gates"
  /\ LET c == calls[s]
         isAnnotationOwner == IF c.doc.doesEntityExist THEN isOwner(owned, c.user, c.id)
                              ELSE TRUE
         isEntityOwner == isOwner(owned, c.user, c.doc.relatedEntity)
         isCompilationOwner == isOwner(owned, c.user, c.doc.relatedCompilation)
     IN IF \/ EntityGateRejects(IsValidId(c.doc.relatedCompilation), isEntityOwner)
           \/ OwnerGateRejects(isAnnotationOwner, isCompilationOwner)
        THEN /\ response' = [Completed(c, Absent) EXCEPT !.status = 500]
             /\ calls' = [calls EXCEPT ![s] = Idle]
             /\ UNCHANGED cache
        ELSE /\ calls' = [calls EXCEPT ![s].pc = "listRead",
                                       ![s].doc.isAnnotationOwner = isAnnotationOwner]
             /\ cache' = IF isAnnotationOwner THEN cache
                         ELSE resolve(cache, DB, c.id, "annotation").cache
             /\ UNCHANGED response
  /\ UNCHANGED <<metaVars, annVars, owned, accounts, Mongo, nOps>>

\* updateAnnotationList: obj = await Mongo.resolve(entityOrCompId, coll, 0)
\* and the push onto obj.annotationList; without an object the promise of
\* saveAnnotation stays pending
ListRead(s) ==
  /\ calls[s].pc = "listRead"
  /\ \E r \in {resolve(cache, DB, ListOf(calls[s].doc).id, ListOf(calls[s].doc).coll)} :
       /\ cache' = r.cache
       /\ calls' = IF r.val.kind = "absent"
                   THEN [calls EXCEPT ![s].pc = "pending"]
                   ELSE [calls EXCEPT ![s].pc = "listWrite",
                                      ![s].read = updateAnnotationList(r.val.annotationList,
                                                                       calls[s].id)]
  /\ UNCHANGED <<metaVars, annVars, owned, response, accounts, Mongo, nOps>>

\* coll.updateOne({ _id }, { $set: { annotationList } }); ack is
\* listUpdateResult.result.ok = 1
ListWrite(s, ack) ==
  /\ calls[s].pc = "listWrite"
  /\ \E db1 \in {IF ack THEN SetAnnotationList(DB, ListOf(calls[s].doc).coll,
                                               ListOf(calls[s].doc).id, calls[s].read)
                 ELSE DB} :
       /\ entity' = db1.entity
       /\ compilation' = db1.compilation
  /\ IF ack
     THEN /\ calls' = [calls EXCEPT ![s].pc = "upsert"]
          /\ UNCHANGED response
     ELSE /\ calls' = [calls EXCEPT ![s] = Idle]
          /\ response' = [Completed(calls[s], Absent) EXCEPT !.status = 500]
  /\ UNCHANGED <<metaVars, annotation, images, owned, cache, accounts, Mongo, nOps>>

\* insertCurrentUserData, then in addEntityToCollection the upsert of the
\* annotation and resolve(resultId, coll)
UpsertListedAnnotation(s) ==
  /\ calls[s].pc = "upsert"
  /\ LET c == calls[s]
         stored == [body |-> "b1", relatedEntity |-> c.doc.relatedEntity,
                    relatedCompilation |-> c.doc.relatedCompilation,
                    generated |-> c.doc.time, lastModificationDate |-> c.doc.time,
                    lastModifiedBy |-> c.user]
     IN /\ owned' = IF c.doc.isAnnotationOwner THEN makeOwnerOf(owned, c.user, c.id)
                    ELSE owned
        /\ annotation' = SetKey(annotation, c.id, stored)
        /\ \E r \in {resolve(cache, [DB EXCEPT !.annotation = SetKey(@, c.id, stored)],
                            c.id, "annotation")} :
             /\ cache' = r.cache
             /\ response' = Completed(c, r.val)
  /\ calls' = [calls EXCEPT ![s] = Idle]
  /\ UNCHANGED <<metaVars, entity, compilation, images, accounts, Mongo, nOps>>

----------------------------------------------------------------------------
(* Specification of the removal of entities, compilations and annotations:  *)
(* DELETE requests with any session and body, a deleteOne and an            *)
(* undoOwnerOf that may fail, and the GET requests around them              *)

NextRemove ==
  \/ \E id \in EntIds : GetEntityFromCollection(id, "entity")
  \/ \E id \in CompIds : GetEntityFromCollection(id, "compilation")
  \/ \E id \in AnnIds : GetEntityFromCollection(id, "annotation")
  \/ \E session \in {"u1", "u2", Anonymous}, username \in {"u1", "u2"},
        id \in {"E1", "K1", "X"}, coll \in {"entity", "compilation", "annotation"},
        deleted \in BOOLEAN, undone \in BOOLEAN :
       RemoveFromCollection(session, username, id, coll, deleted, undone)

SpecRemove == InitAnn /\ [][NextRemove]_vars

----------------------------------------------------------------------------
(* Specification of the old Utility: addAnnotationsToAnnotationList with    *)
(* arrays of annotation ids, and the GET requests around it                 *)

\* the arrays of ids a body carries: stored (X), not stored (Y) and invalid ids
SubmittedAnnotations ==
  {<<>>} \cup {<<a>> : a \in {"X", "Y", NoId}}
         \cup {<<a, b>> : a \in {"X", "Y", NoId}, b \in {"X", "Y", NoId}}

NextUtilityLegacy ==
  \/ \E id \in EntIds : GetEntityFromCollection(id, "entity")
  \/ \E id \in CompIds : GetEntityFromCollection(id, "compilation")
  \/ \E id \in AnnIds : GetEntityFromCollection(id, "annotation")
  \/ \E compId \in CompIds \cup {NoId}, annotations \in SubmittedAnnotations,
        ack \in BOOLEAN :
       AddAnnotationsToAnnotationListLegacy(compId, annotations, ack)

SpecUtilityLegacy == InitAnn /\ [][NextUtilityLegacy]_vars

----------------------------------------------------------------------------
(* Specification of a resolve in flight beside addEntityToCollection        *)

\* A store as earlier requests left it: entity E1 (owned by u1) and
\* compilation K1 (owned by u2), which has no entity and no annotation yet
InitRace ==
  /\ person = EmptyMap
  /\ institution = EmptyMap
  /\ digitalentity = EmptyMap
  /\ physicalentity = EmptyMap
  /\ entity = [e \in {"E1"} |->
                [annotationList |-> <<>>, annotations |-> {}, settings |-> "s1",
                 relatedDigitalEntity |-> "A"]]
  /\ compilation = [c \in {"K1"} |->
                     [annotationList |-> <<>>, annotations |-> {}, entities |-> {}]]
  /\ annotation = EmptyMap
  /\ owned = [u \in Users |->
               IF u = "u1" THEN {"E1"} ELSE IF u = "u2" THEN {"K1"} ELSE {}]
  /\ images = {}
  /\ cache = EmptyMap
  /\ response = [op |-> "none"]
  /\ nOps = 0
  /\ accounts = NoAccounts
  /\ calls = NoCalls
  /\ Mongo = Connected

NextResolveRace ==
  \/ \E s \in OwnerSlots, id \in CompIds : StartResolve(s, id, "compilation")
  \/ \E s \in OwnerSlots, id \in CompIds, list \in {<<>>, <<"X">>} :
       StartAddCompilation(s, "u2", id, list)
  \/ \E s \in OwnerSlots : SaveCompilation(s)
  \/ \E s \in OwnerSlots : UpdateOneCompilation(s)
  \/ \E s \in OwnerSlots : ResolveCacheGet(s)
  \/ \E s \in OwnerSlots : ResolveFindOne(s)
  \/ \E s \in OwnerSlots : ResolveCacheSet(s)

SpecResolveRace == InitRace /\ [][NextResolveRace]_vars

----------------------------------------------------------------------------
(* Specification of saves of annotations in flight together                 *)

NextAnnotationRace ==
  \/ \E s \in OwnerSlots, u \in {"u1", "u2"}, id \in {"X", "Y"}, k \in {"K1", NoId} :
       StartAddAnnotation(s, u, id, k)
  \/ \E s \in OwnerSlots : AnnotationGates(s)
  \/ \E s \in OwnerSlots : ListRead(s)
  \/ \E s \in OwnerSlots, ack \in BOOLEAN : ListWrite(s, ack)
  \/ \E s \in OwnerSlots : UpsertListedAnnotation(s)

SpecAnnotationRace == InitRace /\ [][NextAnnotationRace]_vars

----------------------------------------------------------------------------
(* Specification of the reconnect loop                                      *)

NextReconnect ==
  \/ ConnectionCloses
  \/ ServerReturns
  \/ ReconnectTimeout
  \/ ReconnectInterval

SpecReconnect == InitRace /\ [][NextReconnect]_vars

----------------------------------------------------------------------------
(* Specification of the calls of resolve                                    *)

\* the arguments of resolve: absent, an invalid id, ids in and out of the store
ResolveInputs == DEIds \cup PersonIds \cup {NoId, Undefined}

NextResolve ==
  \/ \E u \in {"u1"}, id \in DEIds, is \in InstLists :
       AddDigitalEntity(u, id, <<>>, is)
  \/ \E obj \in ResolveInputs, coll \in {"digitalentity", "person"},
        depth \in {NoDepth, Depth(0)}, findOne \in FindOneOutcomes :
       Resolve(obj, coll, depth, findOne)
  \/ \E id \in DEIds : CorruptCacheEntry(id)

SpecResolve == InitMeta /\ [][NextResolve]_vars

----------------------------------------------------------------------------
(* Specification of the explore requests                                    *)

NoFilters == [annotatable |-> FALSE, annotated |-> FALSE, restricted |-> FALSE]

Plain(se) == [searchEntity |-> se, types |-> <<"model">>, offset |-> 0,
              searchText |-> <<>>, filters |-> NoFilters]

\* request bodies: the filters annotatable and restricted, a search text in
\* lower and in upper case, an offset, an empty list of media types
ExploreBodies ==
  UNION {{[Plain(se) EXCEPT !.filters.annotatable = a, !.filters.restricted = r] :
            a \in BOOLEAN, r \in BOOLEAN}
         \cup {[Plain(se) EXCEPT !.searchText = t] : t \in {<<"a">>, <<"A">>}}
         \cup {[Plain(se) EXCEPT !.offset = 1], [Plain(se) EXCEPT !.types = <<>>]} :
           se \in BOOLEAN}

Open == [enabled |-> FALSE, persons |-> {}]

ExploreEntity(name, wl, online) ==
  [annotationList |-> <<>>, annotations |-> {}, settings |-> "s1",
   relatedDigitalEntity |-> "A", name |-> name, whitelist |-> wl,
   finished |-> TRUE, online |-> online, mediaType |-> "model"]

ExploreCompilation(name, description, password, wl, es) ==
  [annotationList |-> <<>>, annotations |-> {}, entities |-> es, name |-> name,
   description |-> description, password |-> password, whitelist |-> wl]

\* A store as earlier requests left it: u1 owns the entities E1 and E2 and the
\* compilation K3, u2 owns E3, K1 and K2; E2 and K2 have an enabled whitelist,
\* K2 has a password; E3 is online or not.  In the order of their names:
\* E2 "Ac", E1 "ab", E3 "b" and K2 "Ba", K1 "ab", K3 "b".
InitExplore ==
  /\ person = EmptyMap
  /\ institution = EmptyMap
  /\ digitalentity = EmptyMap
  /\ physicalentity = EmptyMap
  /\ \E online \in BOOLEAN :
       entity = [e \in {"E1", "E2", "E3"} |->
                  CASE e = "E1" -> ExploreEntity(<<"a", "b">>, Open, TRUE)
                    [] e = "E2" -> ExploreEntity(<<"A", "c">>,
                                     [enabled |-> TRUE, persons |-> {"u2"}], TRUE)
                    [] e = "E3" -> ExploreEntity(<<"b">>, Open, online)]
  /\ compilation = [k \in {"K1", "K2", "K3"} |->
                     CASE k = "K1" -> ExploreCompilation(<<"a", "b">>, <<"C">>, "", Open, {"E1"})
                       [] k = "K2" -> ExploreCompilation(<<"B", "a">>, <<"c">>, "pw",
                                        [enabled |-> TRUE, persons |-> {"u1"}], {"E1"})
                       [] k = "K3" -> ExploreCompilation(<<"b">>, <<>>, Undefined, Open, {"E3"})]
  /\ annotation = EmptyMap
  /\ owned = [u \in Users |->
               IF u = "u1" THEN {"E1", "E2", "K3"}
               ELSE IF u = "u2" THEN {"E3", "K1", "K2"} ELSE {}]
  /\ images = {}
  /\ cache = EmptyMap
  /\ response = [op |-> "none"]
  /\ nOps = 0
  /\ accounts = NoAccounts
  /\ calls = NoCalls
  /\ Mongo = Connected

NextExplore ==
  \/ \E u \in {"u1", "u2", Anonymous}, body \in ExploreBodies : Explore(u, body)
  \/ \E u \in {"u1", "u2", Anonymous}, id \in Range(ExploreCompIds) \cup {"K4"},
        password \in Passwords : GetCompilationFromCollection(u, id, password)

SpecExplore == InitExplore /\ [][NextExplore]_vars

----------------------------------------------------------------------------
(* Specifications of the owner actions                                     *)

\* Accounts as earlier requests left them: u1 owns E2 and E1, u2 owns E1 or
\* nothing, u3 owns nothing.
InitOwner ==
  /\ person = EmptyMap
  /\ institution = EmptyMap
  /\ digitalentity = EmptyMap
  /\ physicalentity = EmptyMap
  /\ entity = [e \in {"E1"} |->
                [annotationList |-> <<>>, annotations |-> {}, settings |-> "s1",
                 relatedDigitalEntity |-> "A"]]
  /\ compilation = EmptyMap
  /\ annotation = EmptyMap
  /\ owned = [u \in Users |-> {}]
  /\ images = {}
  /\ cache = EmptyMap
  /\ response = [op |-> "none"]
  /\ nOps = 0
  /\ \E second \in {<<>>, <<"E1">>} :
       accounts = [u \in Users |->
                    IF u = "u1" THEN <<"E2", "E1">>
                    ELSE IF u = "u2" THEN second ELSE <<>>]
  /\ calls = NoCalls
  /\ Mongo = Connected

\* applyActionToEntityOwner
NextOwner ==
  \/ \E s \in OwnerSlots, command \in Commands, owner \in OwnerInputs,
        entityId \in {"E1", NoId} :
       StartOwnerAction(s, "entity", command, owner, entityId)
  \/ \E s \in OwnerSlots : FindOwnerAccount(s)
  \/ \E s \in OwnerSlots : CountEntityOwners(s)
  \/ \E s \in OwnerSlots, ack \in BOOLEAN : UpdateOwnerAccount(s, ack)

SpecOwner == InitOwner /\ [][NextOwner]_vars

\* applyActionToModelOwner
NextModelOwner ==
  \/ \E s \in OwnerSlots, command \in Commands, owner \in OwnerInputs,
        entityId \in {"E1", NoId} :
       StartOwnerAction(s, "model", command, owner, entityId)
  \/ \E s \in OwnerSlots : FindOwnerAccount(s)
  \/ \E s \in OwnerSlots, ack \in BOOLEAN : UpdateOwnerAccount(s, ack)

SpecModelOwner == InitOwner /\ [][NextModelOwner]_vars

----------------------------------------------------------------------------
(* Properties of the metadata graph                                        *)

\* a resolved digital entity shows every embedded person under id only
Isolated(tree, id) ==
  \A j \in 1..Len(tree.persons) :
    tree.persons[j].kind = "person" =>
      /\ DOMAIN tree.persons[j].roles = {id}
      /\ DOMAIN tree.persons[j].institutions = {id}
      /\ DOMAIN tree.persons[j].contact_references = {id}

\* the stored roles object of the record a write went to
StoredRoles(w) ==
  IF w.coll = "person" THEN person[w.id].roles ELSE institution[w.id].roles

\* every institution a resolved digital entity shows, on its own or under one
\* of its persons, holds addresses and notes under id only
InstitutionsIsolated(tree, id) ==
  /\ \A j \in 1..Len(tree.institutions) :
       tree.institutions[j].kind = "institution" =>
         /\ DOMAIN tree.institutions[j].addresses = {id}
         /\ DOMAIN tree.institutions[j].notes = {id}
  /\ \A j \in 1..Len(tree.persons) :
       tree.persons[j].kind = "person" =>
         \A k \in DOMAIN tree.persons[j].institutions :
           LET list == tree.persons[j].institutions[k]
           IN ToString(list) # ToString(Undef) =>
                \A n \in 1..Len(list) :
                  /\ DOMAIN list[n].addresses = {id}
                  /\ DOMAIN list[n].notes = {id}

\* Every digital entity a request returns, and every digital entity the cache
\* holds, shows each embedded person with roles, institutions and
\* contact_references holding the entry of that digital entity's id and no
\* other, whatever was resolved and cached before.
EmbeddedPersonsIsolated ==
  /\ (response.op \in {"get", "save"} /\ response.val.kind = "digitalentity")
       => Isolated(response.val, response.id)
  /\ \A k \in DOMAIN cache :
       cache[k].kind = "digitalentity" => Isolated(cache[k], k)

\* C1: context isolation.  Every digital entity a request returns, and every
\* digital entity the cache holds, shows each embedded person with roles,
\* institutions and contact_references, and each institution with addresses
\* and notes, holding the entry of that digital entity's id and no other,
\* whatever was resolved and cached before.
C1_ContextIsolation ==
  /\ EmbeddedPersonsIsolated
  /\ (response.op \in {"get", "save"} /\ response.val.kind = "digitalentity")
       => InstitutionsIsolated(response.val, response.id)
  /\ \A k \in DOMAIN cache :
       cache[k].kind = "digitalentity" => InstitutionsIsolated(cache[k], k)

\* C2: role replace-not-merge.  After a save of context C with a person or
\* institution carrying role list R, the stored roles[C] of that record is R.
C2_RoleReplaced ==
  response.op = "save" =>
    \A w \in response.writes :
      w.ctx \in DOMAIN StoredRoles(w) /\ StoredRoles(w)[w.ctx] = w.role

\* C3: frame of a save.  After a save of context C with a shared record that
\* was stored before, every entry roles[D], D # C, the record held before the
\* save is still there and unchanged.
C3_OtherContextsUntouched ==
  response.op = "save" =>
    \A w \in response.writes :
      w.existed =>
        \A d \in (DOMAIN w.before) \ {w.ctx} :
          d \in DOMAIN StoredRoles(w) /\ StoredRoles(w)[d] = w.before[d]

\* the last request was a save of a digital entity with nested records
MetaSaved == response.op = "save" /\ response.strategy \in {"current", "legacy"}

\* the ids of collection coll that the writes in ws created
Created(ws, coll) == {w.id : w \in {x \in ws : x.coll = coll /\ ~x.existed}}

\* C15: a nested person or institution that carries the valid id of a stored
\* record is normalized to that id, one that carries no valid id to the id of
\* a record the save created; the save completes, yields these ids, and
\* creates no other record.
C15_NestedIdentity ==
  MetaSaved =>
    /\ \A w \in response.writes :
         /\ response.status = 200
         /\ w.id \in response.yielded
         /\ w.submitted # NoId =>
              (w.existed /\ w.id = w.submitted)
         /\ w.submitted = NoId =>
              (~w.existed /\ w.id \in DOMAIN DB[w.coll])
    /\ DOMAIN person = response.stored.person \cup Created(response.writes, "person")
    /\ DOMAIN institution =
         response.stored.institution \cup Created(response.writes, "institution")

----------------------------------------------------------------------------
(* Properties of the annotation engine and the cache                       *)

\* what resolve gives for the id of the last request from the store alone
Fresh == Lookup(CacheFlush, DB, response.id, response.coll).val

\* the last request was a POST of an annotation
AnnotationSaved == response.op = "save" /\ response.strategy = "annotation"

\* the submitted annotation passes the validation of its shape and of its ids
Valid(req) ==
  /\ req.hasSource /\ req.hasBody
  /\ IsValidId(req.relatedEntity)
  /\ req.relatedCompilation # Undefined

\* the last request was a well-formed update of a stored annotation scoped to
\* a compilation, by the compilation's owner, who does not own the annotation
ByCompilationOwner ==
  /\ AnnotationSaved
  /\ Valid(response.req)
  /\ IsValidId(response.req.relatedCompilation)
  /\ response.pre.existed
  /\ ~response.pre.annotationOwner
  /\ response.pre.compilationOwner

\* C4: cache coherence.  A GET of an id, then a completed save that touches
\* the record with that id, then a GET of the id again: the second GET
\* answers what the store now holds.
C4_CacheCoherence ==
  [][(/\ response.op = "save" /\ response.status = 200
      /\ response'.op = "get"
      /\ response'.id \in response.touched
      /\ response.after = response'.id)
       => response'.val = Fresh']_vars

\* C5: every operation that writes to a stored collection flushes the cache:
\* once it has completed, no cache entry written before it remains.
C5_EveryWriteFlushes ==
  (/\ response.op \in {"save", "settings", "copy", "remove"}
   /\ response.status = 200
   /\ response.changed # {})
    => response.kept = {}

\* C6: an update of a stored annotation by a requester who owns neither the
\* annotation nor the target entity nor the target compilation is rejected
\* with 'Permission denied' and changes nothing stored: no collection, no
\* owner record, no image.
C6_NonOwnerRejectedNoChange ==
  (/\ AnnotationSaved
   /\ Valid(response.req)
   /\ response.pre.existed
   /\ ~response.pre.annotationOwner
   /\ ~response.pre.entityOwner
   /\ ~response.pre.compilationOwner)
    => /\ response.status = 500
       /\ response.message = "Permission denied"
       /\ response.changed = {}

\* C7: the owner of the target compilation who does not own the stored
\* annotation and resubmits it with a body equal to the stored body is not
\* denied, and the save succeeds when the list update and the upsert of the
\* annotation are acknowledged.
C7_SameBodyAccepted ==
  (ByCompilationOwner /\ response.req.body.content = response.pre.body)
    => /\ response.message # "Permission denied"
       /\ (response.ack /\ response.upsert) => response.status = 200

\* C7 witness: u2, owner of K1 and not of X, resubmitted X with the stored body
\* and was answered 200.
C7_Witness ==
  /\ ByCompilationOwner
  /\ response.user = "u2" /\ response.id = "X"
  /\ response.req.body.content = response.pre.body
  /\ response.status = 200
  /\ annotation["X"].body = "b1"

\* C8: the owner of the target compilation who does not own the stored
\* annotation and resubmits it with a body that differs from the stored body
\* is rejected, and the stored body stays.
C8_ChangedBodyRejected ==
  (ByCompilationOwner /\ response.req.body.content # response.pre.body)
    => /\ response.status = 500
       /\ annotation[response.id].body = response.pre.body

\* the last request was a POST of an annotation without a valid compilation id
EntityScoped == AnnotationSaved /\ ~IsValidId(response.req.relatedCompilation)

\* C9: an entity-scoped annotation is saved only for the owner of the target
\* entity; anyone else is rejected, whether the annotation exists or not.
C9_EntityScopedNeedsEntityOwner ==
  EntityScoped =>
    /\ response.status = 200 => response.pre.entityOwner
    /\ ~response.pre.entityOwner => response.status = 500

\* C9 witness: u2, who does not own E1, submitted the stored annotation X as
\* an entity-scoped one and was denied.
C9_Witness ==
  /\ EntityScoped
  /\ Valid(response.req)
  /\ response.user = "u2" /\ response.pre.existed
  /\ ~response.pre.entityOwner
  /\ response.status = 500 /\ response.message = "Permission denied"

\* the last request was a POST of an annotation with a valid compilation id
CompilationScoped == AnnotationSaved /\ IsValidId(response.req.relatedCompilation)

\* C10: a compilation-scoped annotation is saved only for a requester who
\* owns the annotation or the target compilation, the first save of an
\* annotation that is not stored yet included.
C10_CompilationScopedNeedsOwner ==
  (CompilationScoped /\ response.status = 200)
    => (response.pre.annotationOwner \/ response.pre.compilationOwner)

\* C10 as amended: a compilation-scoped annotation that is stored already is
\* saved only for a requester who owns it or owns the target compilation, and
\* anyone else is denied; an annotation that is not stored yet is saved for
\* any requester.
C10_StoredNeedsOwner ==
  (CompilationScoped /\ Valid(response.req) /\ response.pre.existed)
    => /\ response.status = 200
            => (response.pre.annotationOwner \/ response.pre.compilationOwner)
       /\ (~response.pre.annotationOwner /\ ~response.pre.compilationOwner)
            => (response.status = 500 /\ response.message = "Permission denied")

\* C10 witness: u3, who owns nothing, submitted the stored annotation X scoped
\* to K1 and was denied.
C10_Witness ==
  /\ CompilationScoped
  /\ Valid(response.req)
  /\ response.user = "u3" /\ response.id = "X" /\ response.pre.existed
  /\ response.req.relatedCompilation = "K1"
  /\ response.status = 500 /\ response.message = "Permission denied"

\* a list that holds no id twice
NoDuplicates(list) == \A i, j \in 1..Len(list) : list[i] = list[j] => i = j

----------------------------------------------------------------------------
(* Properties of the owner actions                                         *)

\* the last answer is the answer of an owner action with this command
OwnerAnswered(command) == response.op = "owner" /\ response.command = command

\* how often a list holds id
Occurrences(list, id) == Cardinality({i \in 1..Len(list) : list[i] = id})

\* C12: last-owner guard.  A remove that targets the only account owning
\* the entity is answered with an error, and the array of that account is
\* what it was.
C12_LastOwnerGuard ==
  (OwnerAnswered("remove") /\ response.sole)
    => /\ response.status = "error"
       /\ accounts[response.owner] = response.before

\* C13: an entity that has an owner keeps an owner, in every step of every
\* interleaving of owner actions.
C13_OwnerKept ==
  [][\A e \in {"E1", "E2"} :
       findAllEntityOwners(accounts, e) # {}
         => findAllEntityOwners(accounts', e) # {}]_vars

\* C14: add is idempotent.  After an add the account's array holds the
\* entity id exactly once, and an add for an account whose array held the id
\* already writes the array it read.
C14_AddIdempotent ==
  (OwnerAnswered("add") /\ response.status = "ok")
    => /\ Occurrences(accounts[response.owner], response.entityId) = 1
       /\ response.entityId \in Range(response.read)
            => accounts[response.owner] = response.read

\* C14 witness: E1 was added to u3, who held it from an earlier add, and
\* u3's array is still [E1].
C14_Witness ==
  /\ OwnerAnswered("add") /\ response.status = "ok"
  /\ response.owner = "u3" /\ response.entityId = "E1"
  /\ response.read = <<"E1">>
  /\ accounts["u3"] = <<"E1">>

----------------------------------------------------------------------------
(* Properties of the saves with a physical entity                           *)

PhysicalSaved ==
  /\ response.op = "save"
  /\ "part" \in DOMAIN response
  /\ response.part = "physical"

\* the write w put its role list under the key own and nothing under other
KeyedBy(w, own, other) ==
  /\ own \in DOMAIN w.written
  /\ Range(w.role) \subseteq Range(w.written[own])
  /\ other \in DOMAIN w.written =>
       (other \in DOMAIN w.before /\ w.written[other] = w.before[other])

\* C16: when a digital entity D is saved with a nested physical entity Ph, the
\* role entries written for Ph's persons are keyed by Ph's id and never by
\* D's id, and those written for D's own persons are keyed by D's id.
C16_PhysicalContextKeys ==
  PhysicalSaved =>
    /\ \A w \in response.phWrites :
         /\ KeyedBy(w, response.hid, response.id)
         /\ response.hid \in DOMAIN person[w.id].roles
    /\ \A w \in response.deWrites :
         /\ KeyedBy(w, response.id, response.hid)
         /\ response.id \in DOMAIN person[w.id].roles

C16_Witness ==
  /\ PhysicalSaved
  /\ response.strategy = "current"
  /\ response.status = 200
  /\ \E d \in response.deWrites, h \in response.phWrites :
       /\ d.id # h.id
       /\ person[d.id].roles = [k \in {response.id} |-> <<"AUTHOR">>]
       /\ person[h.id].roles = [k \in {response.hid} |-> <<"EDITOR">>]
       /\ physicalentity[response.hid].persons = <<h.id>>
       /\ digitalentity[response.id].persons = <<d.id>>

\* the ids a stored parent document references are stored
References(doc) ==
  Range(doc.persons) \cup Range(doc.institutions)
    \cup (IF "phyObjs" \in DOMAIN doc THEN Range(doc.phyObjs) ELSE {})

\* C17: within one save the upserts of the nested records complete before the
\* parent DigitalEntity / PhysicalEntity document is written: at every write
\* of a parent each id it references has been upserted, and so the parents
\* the save stored reference no id that is not in the store.
C17_NestedBeforeParent ==
  PhysicalSaved =>
    /\ \A pw \in response.parents :
         /\ pw.refs \subseteq pw.issued
         /\ pw.coll = "physicalentity" =>
              References(physicalentity[pw.id]) \subseteq Issued(DB)
    /\ (response.status = 200 /\ response.strategy = "current") =>
         References(digitalentity[response.id]) \subseteq Issued(DB)

C17_Witness ==
  /\ PhysicalSaved
  /\ response.strategy = "current"
  /\ response.status = 200
  /\ \E pd \in response.parents, ph \in response.parents :
       /\ pd.coll = "digitalentity" /\ ph.coll = "physicalentity"
       /\ ph.id \in pd.refs
       /\ pd.refs \cap DOMAIN person # {}
       /\ ph.refs \cap DOMAIN person # {}
       /\ ~(pd.refs \subseteq ph.issued)

\* C18: resolve(id, collection, depth) called with depth 0 returns the stored
\* record without running a resolving strategy on it (no nested reference is
\* hydrated); this is what updateAnnotationList receives.
C18_DepthZeroIsRaw ==
  (AnnotationSaved /\ response.status = 200) =>
     response.received = response.pre.record

\* no bare reference is left in the reference collections of a resolved document
RECURSIVE Hydrated(_)
Hydrated(val) ==
  CASE val.kind = "digitalentity" ->
         /\ \A j \in 1..Len(val.persons) : val.persons[j].kind # "ref"
         /\ \A j \in 1..Len(val.institutions) : val.institutions[j].kind # "ref"
         /\ "phyObjs" \in DOMAIN val =>
              \A j \in 1..Len(val.phyObjs) :
                /\ val.phyObjs[j].kind # "ref"
                /\ \A i \in 1..Len(val.phyObjs[j].persons) :
                     val.phyObjs[j].persons[i].kind # "ref"
    [] val.kind = "entity" ->
         \A a \in DOMAIN val.annotations : val.annotations[a].kind # "ref"
    [] val.kind = "compilation" ->
         /\ \A e \in DOMAIN val.entities :
              val.entities[e].kind # "ref" /\ Hydrated(val.entities[e])
         /\ \A a \in DOMAIN val.annotations : val.annotations[a].kind # "ref"
    [] OTHER -> TRUE

\* C19: after resolving a DigitalEntity, Entity or Compilation no unresolved
\* reference remains in any of its reference collections: a person,
\* institution, physical entity, entity or annotation reference that fails to
\* resolve is removed from the returned document.
C19_NoUnresolvedReference ==
  (/\ response.op = "get"
   /\ response.status = 200
   /\ response.coll \in {"digitalentity", "entity", "compilation"})
    => Hydrated(response.val)

\* C20: resolve never raises to its caller: for an absent argument, an invalid
\* id, an id not in the store, a failing store lookup and a failure inside a
\* resolving strategy it returns a document or absent.
C20_ResolveNeverRaises ==
  response.op = "resolve" =>
    /\ response.outcome = "returned"
    /\ response.val.kind = "absent" \/ "_id" \in DOMAIN response.val
    /\ (\/ response.obj \in {NoId, Undefined}
        \/ ~response.cached /\ response.findOne = "rejects"
        \/ ~response.cached /\ ~response.stored
        \/ response.threw) => response.val.kind = "absent"

C20_Witness ==
  /\ response.op = "resolve"
  /\ response.threw
  /\ response.stored
  /\ response.outcome = "returned"
  /\ response.val.kind = "absent"

\* C21: when the cache holds under the requested id a value without an _id,
\* resolve does not return that value: it deletes the entry and returns the
\* result of a fresh lookup in the store.
C21_CorruptEntryDropped ==
  (response.op = "resolve" /\ response.corrupt) =>
    /\ response.val # response.held
    /\ response.val.kind = "absent" \/ "_id" \in DOMAIN response.val
    /\ response.obj \in DOMAIN cache => cache[response.obj] = response.val
    /\ (response.findOne = "answers" /\ response.stored /\ ~response.failed)
         => /\ response.val.kind = response.coll
            /\ response.val._id = response.obj

C21_Witness ==
  /\ response.op = "resolve"
  /\ response.corrupt
  /\ response.held = Corrupt
  /\ response.findOne = "answers"
  /\ response.val.kind = "digitalentity"
  /\ response.obj \in DOMAIN cache /\ cache[response.obj] = response.val

\* C22: when a save fails (the saving strategy rejects) the cache is not
\* flushed: every entry cached before the failed request is still cached
\* after it.
C22_FailedSaveKeepsCache ==
  (/\ response.op = "save"
   /\ response.strategy = "current"
   /\ "held" \in DOMAIN response
   /\ response.status = 500)
    => \A k \in DOMAIN response.held :
         k \in DOMAIN cache /\ cache[k] = response.held[k]

\* C23: annotation save is all-or-nothing: when the annotationList update or
\* the annotation upsert is not acknowledged the save is rejected with an
\* error and neither the list nor the annotation nor the requester's owner
\* record is changed in the store.
C23_AnnotationAllOrNothing ==
  (AnnotationSaved /\ (~response.ack \/ ~response.upsert)) =>
    /\ response.status = 500
    /\ response.changed \cap {"entity", "compilation", "annotation", "owned"} = {}

\* C24: saveAnnotation rejects an annotation that lacks target.source or
\* body.content.relatedPerspective as malformed, before any write to the image
\* store, an annotationList, an owner record or the annotation collection.
C24_MalformedRejectedFirst ==
  (AnnotationSaved /\ (~response.req.hasSource \/ ~response.req.hasBody)) =>
    /\ response.status = 500
    /\ response.message \in {"Invalid annotation",
                              "Missing body.content.relatedPerspective"}
    /\ response.changed = {}

C24_Witness ==
  /\ AnnotationSaved
  /\ ~response.req.hasBody
  /\ response.req.preview = "base64"
  /\ response.pre.annotationOwner
  /\ response.status = 500
  /\ response.message = "Missing body.content.relatedPerspective"
  /\ response.changed = {}
  /\ images = {}

----------------------------------------------------------------------------
(* Properties of the explore requests                                       *)

ExploreAnswered == response.op = "explore"

ItemIds == {response.items[i]._id : i \in 1..Len(response.items)}

\* C25: explore returns at most limit items; a scan over at least one media
\* type ends as soon as limit items are collected or the cursor is exhausted,
\* in the entity and in the compilation search, and an answer served from the
\* cache has at most limit items as well.
C25_AtMostLimit ==
  ExploreAnswered =>
    /\ Len(response.items) <= limit
    /\ (~response.fromCache /\ response.body.types # <<>>) =>
         \/ response.left = <<>>
         \/ /\ Len(response.items) = limit
            /\ response.consumed[Len(response.consumed)] \in ItemIds

C25_Witness ==
  /\ ExploreAnswered
  /\ ~response.fromCache
  /\ Len(response.items) = limit
  /\ response.left # <<>>
  /\ hash(response.body) \in DOMAIN cache
  /\ Len(cache[hash(response.body)]) = limit

\* the stored document of an item
StoredItem == [id \in ItemIds |->
                 IF response.body.searchEntity THEN entity[id] ELSE compilation[id]]

\* C26: with the 'restricted' filter explore returns only restricted objects:
\* in the entity search only entities whose whitelist is enabled, in the
\* compilation search only compilations that have a password set.
C26_RestrictedOnly ==
  (ExploreAnswered /\ response.body.filters.restricted) =>
    \A id \in ItemIds :
      IF response.body.searchEntity THEN StoredItem[id].whitelist.enabled
      ELSE StoredItem[id].password \notin {Undefined, ""}

\* C27: with the 'annotatable' filter an entity is returned only if the
\* requester owns it, a compilation only if the requester owns it or is a
\* logged-in user listed in its enabled whitelist; an anonymous requester gets
\* no item.
C27_AnnotatableOnly ==
  (ExploreAnswered /\ response.body.filters.annotatable) =>
    /\ response.user = Anonymous => response.items = <<>>
    /\ \A id \in ItemIds :
         \/ ExploreIsOwner(owned, response.user, id)
         \/ /\ ~response.body.searchEntity
            /\ response.user # Anonymous
            /\ StoredItem[id].whitelist.enabled
            /\ response.user \in StoredItem[id].whitelist.persons

\* the text the filter searches: the whole document of an entity, the name and
\* the description of a compilation
SearchedTexts(doc) ==
  IF response.body.searchEntity THEN {doc.name} ELSE {doc.name, doc.description}

\* what was consumed and passes every filter but the one on the text
PassesOtherFilters(id) ==
  LET coll == IF response.body.searchEntity THEN "entity" ELSE "compilation"
      r == ExploreResolved(DB[coll][id], Lookup(EmptyMap, DB, id, coll))
  IN Keeps(owned, response.user, [response.body EXCEPT !.searchText = <<>>], r, coll)

\* C30: the free-text filter of explore is case-insensitive: an object passes
\* exactly when the lower-cased search text is a substring of its lower-cased
\* text, so two search texts that differ only in case select the same objects.
C30_CaseInsensitiveText ==
  (ExploreAnswered /\ response.body.searchText # <<>>) =>
    \A id \in Range(response.consumed) :
      PassesOtherFilters(id) =>
        (id \in ItemIds <=>
           \E t \in SearchedTexts(DB[IF response.body.searchEntity THEN "entity"
                                     ELSE "compilation"][id]) :
             includes(toLowerCase(t), toLowerCase(response.body.searchText)))

----------------------------------------------------------------------------
(* Properties of the removal of metadata entities                           *)

MetaDataRemoved ==
  /\ response.op = "remove"
  /\ response.coll \in {"digitalentity", "physicalentity"}
  /\ response.status = 200

\* C29: removeEntityFromCollection on a DigitalEntity or PhysicalEntity deletes
\* only that document: every Person and Institution record (with the addresses
\* and contact references it holds) and every other digital or physical entity
\* is stored unchanged afterwards.
C29_RemoveKeepsShared ==
  MetaDataRemoved =>
    /\ person = response.before.person
    /\ institution = response.before.institution
    /\ digitalentity = Without(response.before.digitalentity, response.id)
         \/ response.coll # "digitalentity"
    /\ physicalentity = Without(response.before.physicalentity, response.id)
         \/ response.coll # "physicalentity"
    /\ response.coll = "digitalentity" => physicalentity = response.before.physicalentity
    /\ response.coll = "physicalentity" => digitalentity = response.before.digitalentity

C29_Witness ==
  /\ MetaDataRemoved
  /\ response.coll = "physicalentity"
  /\ response.id \in DOMAIN response.before.physicalentity
  /\ response.id \notin DOMAIN physicalentity
  /\ \E p \in Range(response.before.physicalentity[response.id].persons) :
       /\ p \in DOMAIN person
       /\ response.id \in DOMAIN person[p].roles

----------------------------------------------------------------------------
(* Properties of the round trip through save and resolve                    *)

\* the resolved person at position j of list has the id and exactly the role
\* list of the submitted person at that position, under the context ctx only
SameAsSubmitted(list, subs, ctx) ==
  /\ Len(list) = Len(subs)
  /\ \A j \in 1..Len(subs) :
       /\ list[j].kind = "person"
       /\ subs[j].id # NoId => list[j]._id = subs[j].id
       /\ list[j].roles = [k \in {ctx} |-> subs[j].role]
  /\ \A i, j \in 1..Len(list) : i # j => list[i]._id # list[j]._id

\* a digital entity with two persons and one physical entity went through the
\* current saving strategy
RoundTripRequested ==
  /\ PhysicalSaved
  /\ response.strategy = "current"
  /\ Len(response.req.persons) = 2

\* C28: round trip.  Saving a digital entity with two persons and one
\* physical entity and then resolving it returns the same person ids, each
\* with exactly the role list submitted, under its own context id: the digital
\* entity's id for its persons, the physical entity's id for the persons of
\* the physical entity.
C28_RoundTrip ==
  RoundTripRequested =>
    /\ response.status = 200
    /\ response.val.kind = "digitalentity"
    /\ SameAsSubmitted(response.val.persons, response.req.persons, response.id)
    /\ Len(response.val.phyObjs) = 1
    /\ response.val.phyObjs[1].kind = "physicalentity"
    /\ response.val.phyObjs[1]._id = response.hid
    /\ SameAsSubmitted(response.val.phyObjs[1].persons, response.req.phyObj.persons,
                       response.hid)


\* a save of an annotation that was answered 200
AnnotationSaveSucceeded ==
  /\ response.op = "save"
  /\ response.strategy = "annotation"
  /\ response.status = 200
  /\ response.id \in DOMAIN annotation

\* C31: every successful save stamps lastModificationDate and lastModifiedBy
\* with the time of the request and the requester, and leaves the stored
\* 'generated' of an annotation that existed before the request as it was
C31_GeneratedNeverChanges ==
  AnnotationSaveSucceeded =>
    /\ annotation[response.id].lastModificationDate = response.pre.now
    /\ annotation[response.id].lastModifiedBy = response.user
    /\ annotation[response.id].generated # Undefined
    /\ response.pre.existed =>
         annotation[response.id].generated = response.pre.generated

\* C34: the entity search of explore returns an entity whose whitelist is
\* enabled only to a logged-in requester who owns it or is listed in the
\* whitelist, whoever asked with the same body before.
C34_WhitelistHidesEntity ==
  (ExploreAnswered /\ response.body.searchEntity) =>
    \A id \in ItemIds :
      entity[id].whitelist.enabled =>
        /\ response.user # Anonymous
        /\ \/ ExploreIsOwner(owned, response.user, id)
           \/ response.user \in entity[id].whitelist.persons

\* a GET of a stored compilation that has a password set was answered
ProtectedRequested ==
  /\ response.op = "get"
  /\ response.id \in DOMAIN compilation
  /\ compilation[response.id].password \notin {Undefined, ""}

\* C35: getEntityFromCollection sends a compilation that has a password set
\* exactly when the requester owns it or the request carries that password;
\* otherwise the answer carries no compilation.
C35_PasswordProtects ==
  ProtectedRequested =>
    (response.sent <=>
       \/ ExploreIsOwner(owned, response.user, response.id)
       \/ response.password = compilation[response.id].password)

\* the protected compilation was refused to a stranger with a wrong password
\* after its owner had fetched it
C35_Witness ==
  /\ ProtectedRequested
  /\ ~response.sent
  /\ response.status = 200
  /\ response.password = "xx"
  /\ response.id \in DOMAIN cache

\* the annotationList target of the submitted annotation: its compilation when
\* that id is valid, else its entity
ListTarget ==
  IF IsValidId(response.req.relatedCompilation)
  THEN [coll |-> "compilation", id |-> response.req.relatedCompilation]
  ELSE [coll |-> "entity", id |-> response.req.relatedEntity]

\* C36: every call of saveAnnotation settles, so that the request is answered
\* (200 or an error status); a save whose target id is valid while no such
\* document is stored is rejected and answered with an error status.
C36_SaveAnnotationSettles ==
  (response.op = "save" /\ response.strategy = "annotation") =>
    /\ response.status \in {200, 500}
    /\ (/\ IsValidId(ListTarget.id)
        /\ ListTarget.id \notin DOMAIN DB[ListTarget.coll]) => response.status = 500

\* the session has a user, the body names that user and the user's data holds
\* the id
RemovalAllowed ==
  /\ response.session # Anonymous
  /\ response.username = response.session
  /\ response.id \in response.before.owned[response.session]

\* C37: removeEntityFromCollection deletes only when the session has a user,
\* the username of the body is that user's and the id is among the user's
\* owned data; otherwise it answers an error status and leaves the
\* collections, the owner records and the cache as they were.
C37_RemoveNeedsOwner ==
  response.op = "remove" =>
    /\ DB # response.before.db => RemovalAllowed
    /\ ~RemovalAllowed =>
         /\ response.status \in {401, 403, 404}
         /\ DB = response.before.db
         /\ owned = response.before.owned
         /\ cache = response.before.cache

\* a user with a session asked to delete, under their own name, a stored and
\* cached document they do not own
C37_Witness ==
  /\ response.op = "remove"
  /\ response.status = 401
  /\ response.session = "u2"
  /\ response.id = "X"
  /\ response.coll = "annotation"
  /\ response.deleted
  /\ "X" \in DOMAIN annotation
  /\ "X" \in DOMAIN cache

\* C38: a document that removeEntityFromCollection deleted is absent for every
\* later resolve of its id, also when the removal of the owner record failed
\* and the DELETE was answered with an error status.
C38_RemovedStaysAbsent ==
  (/\ response.op = "get"
   /\ response.id \notin DOMAIN DB[response.coll]) => response.val.kind = "absent"

\* the ids a successful addAnnotationsToAnnotationList added to the list
AddedToList ==
  Range(compilation[response.id].annotationList) \ Range(response.before)

\* C39: after a successful addAnnotationsToAnnotationList every id the call
\* added to the compilation's annotationList is the id of a stored annotation;
\* an id that is invalid or resolves to no stored annotation adds nothing.
C39_AddedAnnotationsExist ==
  (response.op = "add" /\ response.status = "ok") =>
    AddedToList \subseteq DOMAIN annotation

\* no request is in flight
Quiescent == \A s \in OwnerSlots : calls[s].pc = "idle"

\* C32: however a resolve of a compilation and an addEntityToCollection that
\* changes it interleave, once the requests have completed the cache holds no
\* value for the compilation that differs from what a resolve from the store
\* gives.
C32_FlushNotOvertaken ==
  Quiescent =>
    \A id \in DOMAIN cache : cache[id] = FromStore(DB, id, "compilation")

\* the stored annotationList a stored annotation belongs on
ListedOn(a) == DB[ListOf(annotation[a]).coll][ListOf(annotation[a]).id].annotationList

\* C33: when two saves of two different annotations on the same entity or
\* compilation were in flight together and both succeeded, the stored
\* annotationList holds both ids.
C33_NoLostListUpdate ==
  Quiescent =>
    \A a, b \in DOMAIN annotation :
      (a # b /\ ListOf(annotation[a]) = ListOf(annotation[b])) =>
        {a, b} \subseteq Range(ListedOn(a))

\* C40: while the server stays down after the connection closed, the
\* reconnect loop calls establishConnection at most MaxRetries times, and the
\* Retry counter never exceeds MaxRetries + 1.
C40_ReconnectGivesUp ==
  /\ Mongo.stayedDown => Mongo.established <= MaxRetries
  /\ Mongo.Retry <= MaxRetries + 1

====
